---------------------------- MODULE Spec2Model ----------------------------
(***************************************************************************)
(* A model of speedy (douglaz/speedy): the FFmpegCommand builder and its   *)
(* tempo-chaining speed(), the argument assembly of build(), and the       *)
(* VideoProcessor option setters with the filter pipeline of process().    *)
(*                                                                         *)
(* Numbers.  An f64/f32 value is a rational [n |-> numerator, d |->        *)
(* denominator] with d > 0.  Every input of the model is a dyadic rational *)
(* (k/32 or a power of two), which an f64 holds exactly, and halving and   *)
(* doubling are exact in f64, so the working value of speed() is exact.    *)
(* A formatted number ({:.4}, {:.2}, {:.1}) is the integer count of units  *)
(* of 10^-decimals, rounded half to even as Rust's float formatting does.  *)
(*                                                                         *)
(* Filter stages.  A stage is the abstract syntax of one filter string:    *)
(* [f |-> filter name, p |-> formatted numeric parameters, d |-> decimals  *)
(* printed, s |-> text parameter].  RenderStage gives the string itself.   *)
(***************************************************************************)
EXTENDS Integers, Sequences, FiniteSets, TLC

VARIABLES
    vp,         \* the VideoProcessor value (video_processor.rs:10-33)
    cmd,        \* the FFmpegCommand value (ffmpeg_wrapper.rs:11-26)
    args,       \* the argument vector build() returned
    info,       \* the VideoInfo the prober returned to process()
    lut_on_disk, \* whether the profile's LUT file exists (luts/*.cube)
    call,       \* the last operation called, with its arguments
    first_call, \* which VideoProcessor setter was called first
    pc,         \* position of the caller
    \* one job of execute() (ffmpeg_wrapper.rs:394-488)
    fg,         \* position of the foreground, the caller of execute()
    spawns,     \* how many times the engine was spawned
    child,      \* the engine: "none", "running" or "exited"
    script,     \* the diagnostic lines the engine has yet to write
    pipe,       \* lines written to the stderr pipe and not yet read
    status,     \* the exit status of the engine, once it has exited
    reader,     \* the reader thread: "none", "running" or "done"
    total_duration, \* the reader's total_duration
    all_output, \* the reader's all_output, line by line
    chan,       \* every sample sent on the mpsc channel, oldest first
    tx_open,    \* whether the sender of the channel is alive
    consumer,   \* the consumer thread: "none", "running" or "done"
    callbacks,  \* the arguments of the callback's invocations, in order
    received,   \* how many samples of chan the receiver has taken
    logged,     \* what execute() wrote with log::error!
    result,     \* what execute() returned
    out_script, \* how many chunks the engine has yet to write to stdout
    out_pipe,   \* how many chunks are in the stdout pipe, which nobody reads
    fg_output   \* the foreground's all_output, once it has joined the reader

job == <<fg, spawns, child, script, pipe, status, reader, total_duration,
         all_output, chan, tx_open, consumer, callbacks, received, logged, result,
         out_script, out_pipe, fg_output>>

vars == <<vp, cmd, args, info, lut_on_disk, call, first_call, pc, job>>

-----------------------------------------------------------------------------
(* Bounds of the model *)

\* multipliers k/32 for k in 1..MaxK32
MaxK32 == 288
\* multipliers 2^j and 2^-j for j in 0..MaxExp
MaxExp == 15
\* filters a caller pushes per track with video_filter() / audio_filter()
MaxFilters == 2
\* calls of preserve_metadata() on one command
MaxPreserveCalls == 1
\* passthrough arguments given to custom_args() on one command
MaxExtraArgs == 2
\* characters of a scale string
MaxScaleLen == 5
\* ','-separated parts of a colour balance string
MaxParts == 3
\* ':'-separated components of one part
MaxComps == 4
\* options a caller moves away from their defaults before process()
MaxOptions == 3
\* diagnostic lines of an enumerated engine run
MaxLines == 2
\* chunks an OS pipe holds before a write to it waits
PipeCap == 2
\* options a user gives on one command line
MaxGiven == 2
\* stages of an audio chain that are recorded; a loop that pushes more goes
\* on, its further stages untold
MaxStages == 6

-----------------------------------------------------------------------------
(* Rational arithmetic *)

RECURSIVE Gcd(_, _)
Gcd(a, b) == IF b = 0 THEN a ELSE Gcd(b, a % b)

Rat(n, d) == LET g == Gcd(IF n < 0 THEN -n ELSE n, d)
             IN  [n |-> n \div g, d |-> d \div g]

RLt(x, y) == x.n * y.d < y.n * x.d
RLe(x, y) == x.n * y.d <= y.n * x.d
REq(x, y) == x.n * y.d = y.n * x.d

RHalf(x)   == IF x.n % 2 = 0 THEN [n |-> x.n \div 2, d |-> x.d]
                             ELSE [n |-> x.n, d |-> 2 * x.d]
RDouble(x) == IF x.d % 2 = 0 THEN [n |-> x.n, d |-> x.d \div 2]
                             ELSE [n |-> 2 * x.n, d |-> x.d]
\* 1.0 / x for x > 0
RInv(x)    == [n |-> x.d, d |-> x.n]

One     == [n |-> 1, d |-> 1]
Two     == [n |-> 2, d |-> 1]
OneHalf == [n |-> 1, d |-> 2]

RECURSIVE Pow(_, _)
Pow(b, e) == IF e = 0 THEN 1 ELSE b * Pow(b, e - 1)

\* format!("{:.dec}", x): the count of units of 10^-dec nearest to x, a tie
\* going to the even count; the sign is that of x
FmtRound(x, dec) ==
    LET mag == IF x.n < 0 THEN -x.n ELSE x.n
        num == mag * Pow(10, dec)
        q   == num \div x.d
        r   == num % x.d
        c   == IF 2 * r < x.d THEN q
               ELSE IF 2 * r > x.d THEN q + 1
               ELSE IF q % 2 = 0 THEN q ELSE q + 1
    IN  IF x.n < 0 THEN -c ELSE c

\* the digits of a formatted count: "0.5156" for FmtText(5156, 4)
RECURSIVE Digits(_, _)
Digits(v, width) ==
    IF width = 0 THEN ""
    ELSE Digits(v \div 10, width - 1) \o ToString(v % 10)

FmtText(v, dec) ==
    LET a == IF v < 0 THEN -v ELSE v
        u == Pow(10, dec)
    IN  (IF v < 0 THEN "-" ELSE "") \o ToString(a \div u)
        \o (IF dec = 0 THEN "" ELSE "." \o Digits(a % u, dec))

-----------------------------------------------------------------------------
(* Option values *)

NoneS   == [some |-> FALSE, v |-> ""]
NoneI   == [some |-> FALSE, v |-> 0]
NoneR   == [some |-> FALSE, v |-> [n |-> 0, d |-> 1]]
NoneQ   == [some |-> FALSE, v |-> <<>>]
Some(x) == [some |-> TRUE, v |-> x]

-----------------------------------------------------------------------------
(* Filter stages: the strings FFmpegCommand pushes on its filter lists *)

Stage(f, p, d, s) == [f |-> f, p |-> p, d |-> d, s |-> s]

\* video_filter(filter) / audio_filter(filter): a caller-supplied string
RawStage(text) == Stage("raw", <<>>, 0, text)

\* format!("setpts={:.4}*PTS", 1.0 / multiplier).  The f64 quotient is within
\* 2^-53 of 1/multiplier in relative terms; for the multipliers of the model
\* the only quotient halfway between two four-decimal numbers is 1/32, which
\* f64 holds exactly, so formatting the exact quotient gives the same digits.
SetptsStage(multiplier) == Stage("setpts", <<FmtRound(RInv(multiplier), 4)>>, 4, "")
\* format!("atempo={:.4}", x)
AtempoStage(x) == Stage("atempo", <<FmtRound(x, 4)>>, 4, "")
\* "atempo=2.0" and "atempo=0.5", the literals of the two chains
AtempoTwo  == Stage("atempo", <<20>>, 1, "")
AtempoHalf == Stage("atempo", <<5>>, 1, "")

RECURSIVE JoinNums(_, _, _)
JoinNums(p, d, sep) ==
    IF p = <<>> THEN ""
    ELSE FmtText(Head(p), d)
         \o (IF Len(p) = 1 THEN "" ELSE sep \o JoinNums(Tail(p), d, sep))

\* the filter string a stage stands for
RenderStage(st) ==
    CASE st.f = "raw"     -> st.s
      [] st.f = "setpts"  -> "setpts=" \o FmtText(st.p[1], st.d) \o "*PTS"
      [] st.f = "atempo"  -> "atempo=" \o FmtText(st.p[1], st.d)
      [] st.f = "eq"      -> "eq=contrast=" \o FmtText(st.p[1], st.d)
                             \o ":saturation=" \o FmtText(st.p[2], st.d)
      [] st.f = "lut3d"   -> "lut3d=" \o st.s
      [] st.f = "deshake" -> "deshake"
      [] st.f = "transpose" ->
             IF Len(st.p) = 1 THEN "transpose=" \o FmtText(st.p[1], 0)
             ELSE "transpose=2,transpose=2"
      [] st.f = "scale"   -> "scale=" \o JoinNums(st.p, 0, ":")
      [] st.f = "nlmeans" -> "nlmeans=s=" \o FmtText(st.p[1], 0)
      [] st.f = "unsharp" -> "unsharp=5:5:" \o FmtText(st.p[1], st.d)
                             \o ":5:5:" \o FmtText(st.p[2], st.d)
      [] st.f = "vibrance" -> "vibrance=intensity=" \o FmtText(st.p[1], st.d)
      [] st.f = "curves"  -> "curves=" \o st.s
      [] st.f = "colorbalance" ->
             "colorbalance=rs=" \o FmtText(st.p[1], 2)
             \o ":gs=" \o FmtText(st.p[2], 2) \o ":bs=" \o FmtText(st.p[3], 2)
             \o ":rm=" \o FmtText(st.p[4], 2) \o ":gm=" \o FmtText(st.p[5], 2)
             \o ":bm=" \o FmtText(st.p[6], 2) \o ":rh=" \o FmtText(st.p[7], 2)
             \o ":gh=" \o FmtText(st.p[8], 2) \o ":bh=" \o FmtText(st.p[9], 2)
      [] st.f = "hue"     -> "hue=h=" \o FmtText(st.p[1], st.d)
      [] st.f = "selectivecolor" -> "selectivecolor=" \o st.s
      [] OTHER -> st.f

\* filters.join(",")
RECURSIVE JoinStages(_)
JoinStages(fs) ==
    IF fs = <<>> THEN ""
    ELSE RenderStage(Head(fs))
         \o (IF Len(fs) = 1 THEN "" ELSE "," \o JoinStages(Tail(fs)))

-----------------------------------------------------------------------------
(* FFmpegCommand: the builder (ffmpeg_wrapper.rs) *)

FFmpegCommand_new(input, output) ==
    [input |-> input, output |-> output,
     video_filters |-> <<>>, audio_filters |-> <<>>,
     video_codec |-> NoneS, audio_codec |-> NoneS,
     bitrate |-> NoneI, quality |-> NoneI,
     preset |-> NoneS, threads |-> NoneI,
     overwrite |-> FALSE,
     extra_args |-> <<>>, metadata_args |-> <<>>,
     hw_accel |-> NoneS]

PushVideo(c, st) == [c EXCEPT !.video_filters = Append(@, st)]
PushAudio(c, st) == [c EXCEPT !.audio_filters = Append(@, st)]

\* variant: the halving loop runs while current >= 2.0
RECURSIVE HalvingLoopInclusive(_, _)
HalvingLoopInclusive(current, out) ==
    IF RLe(Two, current)
    THEN HalvingLoopInclusive(RHalf(current), Append(out, AtempoTwo))
    ELSE [current |-> current, out |-> out]

\* while current > 2.0 { push "atempo=2.0"; current /= 2.0 }
RECURSIVE HalvingLoop(_, _)
HalvingLoop(current, out) ==
    IF RLt(Two, current)
    THEN HalvingLoop(RHalf(current), Append(out, AtempoTwo))
    ELSE [current |-> current, out |-> out]

\* variant: the doubling loop runs while current <= 0.5
RECURSIVE DoublingLoopInclusive(_, _)
DoublingLoopInclusive(current, out) ==
    IF RLe(current, OneHalf)
    THEN DoublingLoopInclusive(RDouble(current), Append(out, AtempoHalf))
    ELSE [current |-> current, out |-> out]

\* while current < 0.5 { push "atempo=0.5"; current *= 2.0 }
RECURSIVE DoublingLoop(_, _)
DoublingLoop(current, out) ==
    IF RLt(current, OneHalf)
    THEN DoublingLoop(RDouble(current), Append(out, AtempoHalf))
    ELSE [current |-> current, out |-> out]

\* variant: the single-stage range is taken as 0.25..=4.0
InTempoRangeWide(multiplier) ==
    RLe(Rat(1, 4), multiplier) /\ RLe(multiplier, Rat(4, 1))

\* (0.5..=2.0).contains(&multiplier)
InTempoRange(multiplier) == RLe(OneHalf, multiplier) /\ RLe(multiplier, Two)

\* variant: the chains push their literals and no residual stage
TempoChainNoResidual(multiplier) ==
    IF RLe(OneHalf, multiplier) /\ RLe(multiplier, Two)
    THEN <<AtempoStage(multiplier)>>
    ELSE DoublingLoop(HalvingLoop(multiplier, <<>>).current,
                      HalvingLoop(multiplier, <<>>).out).out

\* the audio stages speed() pushes when has_audio, for multiplier > 0
TempoChain(multiplier) ==
    IF InTempoRange(multiplier)
    THEN <<AtempoStage(multiplier)>>
    ELSE LET hi  == HalvingLoop(multiplier, <<>>)
             r1  == IF RLt(One, hi.current)
                    THEN Append(hi.out, AtempoStage(hi.current))
                    ELSE hi.out
             lo  == DoublingLoop(hi.current, r1)
         IN  IF RLt(lo.current, One)
             THEN Append(lo.out, AtempoStage(lo.current))
             ELSE lo.out

\* variant: the audio stages are pushed whether or not has_audio
FFmpegCommand_speed_any_audio(c, multiplier, has_audio) ==
    IF ~REq(multiplier, One)
    THEN [PushVideo(c, SetptsStage(multiplier))
              EXCEPT !.audio_filters = @ \o TempoChain(multiplier)]
    ELSE c

\* FFmpegCommand::speed(multiplier, has_audio), for multiplier > 0
FFmpegCommand_speed(c, multiplier, has_audio) ==
    IF ~REq(multiplier, One)
    THEN LET v == PushVideo(c, SetptsStage(multiplier))
         IN  IF has_audio
             THEN [v EXCEPT !.audio_filters = @ \o TempoChain(multiplier)]
             ELSE v
    ELSE c

\* option setters
FFmpegCommand_video_codec(c, codec)  == [c EXCEPT !.video_codec = Some(codec)]
FFmpegCommand_audio_codec(c, codec)  == [c EXCEPT !.audio_codec = Some(codec)]
FFmpegCommand_bitrate(c, mbps)       == [c EXCEPT !.bitrate = Some(mbps)]
FFmpegCommand_quality(c, crf)        == [c EXCEPT !.quality = Some(crf)]
FFmpegCommand_preset(c, preset)      == [c EXCEPT !.preset = Some(preset)]
FFmpegCommand_threads(c, count)      == [c EXCEPT !.threads = Some(count)]
FFmpegCommand_overwrite(c)           == [c EXCEPT !.overwrite = TRUE]
FFmpegCommand_hardware_accel(c, method) == [c EXCEPT !.hw_accel = Some(method)]
FFmpegCommand_video_filter(c, filter) == PushVideo(c, RawStage(filter))
FFmpegCommand_audio_filter(c, filter) == PushAudio(c, RawStage(filter))

\* filter pushers
FFmpegCommand_color_enhance(c, contrast, saturation) ==
    PushVideo(c, Stage("eq", <<FmtRound(contrast, 2), FmtRound(saturation, 2)>>, 2, ""))
FFmpegCommand_lut3d(c, lut_file) == PushVideo(c, Stage("lut3d", <<>>, 0, lut_file))
FFmpegCommand_stabilize(c)       == PushVideo(c, Stage("deshake", <<>>, 0, ""))
FFmpegCommand_auto_rotate(c)     == c
FFmpegCommand_rotate(c, direction) ==
    CASE direction = 0 -> PushVideo(c, Stage("transpose", <<0>>, 0, ""))
      [] direction = 1 -> PushVideo(c, Stage("transpose", <<1>>, 0, ""))
      [] direction = 2 -> PushVideo(c, Stage("transpose", <<2, 2>>, 0, ""))
      [] OTHER -> c
FFmpegCommand_scale(c, width, height) ==
    PushVideo(c, Stage("scale", <<width, height>>, 0, ""))
FFmpegCommand_denoise(c, strength) ==
    PushVideo(c, Stage("nlmeans", <<strength>>, 0, ""))
FFmpegCommand_sharpen(c, strength) ==
    PushVideo(c, Stage("unsharp",
                       <<FmtRound(strength, 2), FmtRound(RHalf(strength), 2)>>, 2, ""))
FFmpegCommand_vibrance(c, intensity) ==
    PushVideo(c, Stage("vibrance", <<FmtRound(intensity, 2)>>, 2, ""))
FFmpegCommand_curves(c, curves_str) == PushVideo(c, Stage("curves", <<>>, 0, curves_str))
FFmpegCommand_color_balance(c, shadows, midtones, highlights) ==
    PushVideo(c, Stage("colorbalance",
                       [i \in 1..9 |->
                           FmtRound((shadows \o midtones \o highlights)[i], 2)],
                       2, ""))
FFmpegCommand_hue_shift(c, degrees) ==
    PushVideo(c, Stage("hue", <<FmtRound(degrees, 1)>>, 1, ""))
FFmpegCommand_selective_color(c, config) ==
    PushVideo(c, Stage("selectivecolor", <<>>, 0, config))

FFmpegCommand_preserve_metadata(c) ==
    [c EXCEPT !.metadata_args =
        @ \o <<"-map_metadata", "0", "-movflags", "use_metadata_tags">>]
FFmpegCommand_custom_args(c, more) == [c EXCEPT !.extra_args = @ \o more]

\* the segments of the argument vector, in the order build() appends them
GlobalArgs(c) ==
    (IF c.overwrite THEN <<"-y">> ELSE <<>>)
    \o (IF c.hw_accel.some THEN <<"-hwaccel", c.hw_accel.v>> ELSE <<>>)
InputArgs(c) == <<"-i", c.input>>
FilterComplex(c) ==
    (IF c.video_filters # <<>>
     THEN "[0:v]" \o JoinStages(c.video_filters) \o "[v]" ELSE "")
    \o (IF c.audio_filters # <<>>
        THEN (IF c.video_filters # <<>> THEN "; " ELSE "")
             \o "[0:a]" \o JoinStages(c.audio_filters) \o "[a]"
        ELSE "")
\* variant: only the tracks that have filters are mapped
FilterArgsFilteredOnly(c) ==
    IF FilterComplex(c) # ""
    THEN <<"-filter_complex", FilterComplex(c)>>
         \o (IF c.video_filters # <<>> THEN <<"-map", "[v]">> ELSE <<>>)
         \o (IF c.audio_filters # <<>> THEN <<"-map", "[a]">> ELSE <<>>)
    ELSE <<>>
FilterArgs(c) ==
    IF FilterComplex(c) # ""
    THEN <<"-filter_complex", FilterComplex(c)>>
         \o (IF c.video_filters # <<>> THEN <<"-map", "[v]">> ELSE <<"-map", "0:v?">>)
         \o (IF c.audio_filters # <<>> THEN <<"-map", "[a]">> ELSE <<"-map", "0:a?">>)
    ELSE <<>>
EncodeArgs(c) ==
    (IF c.video_codec.some THEN <<"-c:v", c.video_codec.v>> ELSE <<>>)
    \o (IF c.audio_codec.some THEN <<"-c:a", c.audio_codec.v>> ELSE <<>>)
    \o (IF c.quality.some THEN <<"-crf", ToString(c.quality.v)>> ELSE <<>>)
    \o (IF c.bitrate.some THEN <<"-b:v", ToString(c.bitrate.v) \o "M">> ELSE <<>>)
    \o (IF c.preset.some THEN <<"-preset", c.preset.v>> ELSE <<>>)
    \o (IF c.threads.some THEN <<"-threads", ToString(c.threads.v)>> ELSE <<>>)

\* variant: the encoder flags are appended before the filter graph
FFmpegCommand_build_encode_first(c) ==
    GlobalArgs(c) \o InputArgs(c) \o EncodeArgs(c) \o FilterArgs(c)
    \o c.metadata_args \o c.extra_args \o <<c.output>>

\* FFmpegCommand::build(): the arguments after the program name "ffmpeg"
FFmpegCommand_build(c) ==
    GlobalArgs(c) \o InputArgs(c) \o FilterArgs(c) \o EncodeArgs(c)
    \o c.metadata_args \o c.extra_args \o <<c.output>>

-----------------------------------------------------------------------------
(* Text parsing: a string is the sequence of its characters *)

I32Max == 2147483647

IsDigit(ch) == ch \in {"0", "1", "2", "3", "4", "5", "6", "7", "8", "9"}
DigitVal(ch) ==
    CASE ch = "0" -> 0 [] ch = "1" -> 1 [] ch = "2" -> 2 [] ch = "3" -> 3
      [] ch = "4" -> 4 [] ch = "5" -> 5 [] ch = "6" -> 6 [] ch = "7" -> 7
      [] ch = "8" -> 8 [] ch = "9" -> 9

ParseErr == [ok |-> FALSE, v |-> 0]

\* the digits of a non-negative i32, accumulated upwards; an error on a
\* character that is no digit and on overflow
RECURSIVE ParseUp(_, _)
ParseUp(cs, acc) ==
    IF cs = <<>> THEN [ok |-> TRUE, v |-> acc]
    ELSE IF ~IsDigit(Head(cs)) THEN ParseErr
    ELSE IF acc > (I32Max - DigitVal(Head(cs))) \div 10 THEN ParseErr
    ELSE ParseUp(Tail(cs), acc * 10 + DigitVal(Head(cs)))

\* the digits of a negative i32, accumulated downwards
RECURSIVE ParseDown(_, _)
ParseDown(cs, acc) ==
    IF cs = <<>> THEN [ok |-> TRUE, v |-> acc]
    ELSE IF ~IsDigit(Head(cs)) THEN ParseErr
    ELSE IF -acc > (IF DigitVal(Head(cs)) = 0 THEN I32Max \div 10
                    ELSE (I32Max - DigitVal(Head(cs)) + 1) \div 10)
         THEN ParseErr
    ELSE ParseDown(Tail(cs), acc * 10 - DigitVal(Head(cs)))

\* str::parse::<i32>(): an optional sign, then at least one digit, no other
\* character, the value in range
ParseI32(cs) ==
    IF cs = <<>> THEN ParseErr
    ELSE IF Head(cs) = "-"
         THEN (IF Tail(cs) = <<>> THEN ParseErr ELSE ParseDown(Tail(cs), 0))
    ELSE IF Head(cs) = "+"
         THEN (IF Tail(cs) = <<>> THEN ParseErr ELSE ParseUp(Tail(cs), 0))
    ELSE ParseUp(cs, 0)

\* str::split_once(ch): the text before and after the first ch
SplitOnce(cs, ch) ==
    IF \E i \in 1..Len(cs) : cs[i] = ch
    THEN LET i == CHOOSE k \in 1..Len(cs) :
                     cs[k] = ch /\ \A j \in 1..(k - 1) : cs[j] # ch
         IN  [found |-> TRUE, left |-> SubSeq(cs, 1, i - 1),
              right |-> SubSeq(cs, i + 1, Len(cs))]
    ELSE [found |-> FALSE, left |-> <<>>, right |-> <<>>]

\* str::parse::<f32>() on the component texts the model uses; every other
\* text of the vocabulary ("x", the empty text) is no number
ParseF32(tok) ==
    CASE tok = "0.1"   -> [ok |-> TRUE, v |-> Rat(1, 10)]
      [] tok = "-0.1"  -> [ok |-> TRUE, v |-> Rat(-1, 10)]
      [] tok = "0"     -> [ok |-> TRUE, v |-> Rat(0, 1)]
      [] tok = "0.125" -> [ok |-> TRUE, v |-> Rat(1, 8)]
      [] OTHER         -> [ok |-> FALSE, v |-> Rat(0, 1)]

\* part.split(':').filter_map(|s| s.parse().ok()).collect(), on a part given
\* as the sequence of its ':'-separated components
RECURSIVE FilterMapParse(_)
FilterMapParse(comps) ==
    IF comps = <<>> THEN <<>>
    ELSE (IF ParseF32(Head(comps)).ok THEN <<ParseF32(Head(comps)).v>> ELSE <<>>)
         \o FilterMapParse(Tail(comps))

-----------------------------------------------------------------------------
(* VideoProcessor: the option holder (video_processor.rs) *)

VideoProcessor_new(input, output) ==
    [input_path |-> input, output_path |-> output,
     speed_multiplier |-> One,
     codec |-> "libx264", bitrate |-> NoneI, quality |-> 23,
     contrast |-> One, saturation |-> One,
     profile |-> "Standard", lut_file |-> NoneS,
     hw_accel |-> FALSE, threads |-> NoneI,
     stabilize |-> FALSE, auto_rotate |-> TRUE,
     denoise |-> NoneI, sharpen |-> NoneR, scale |-> NoneQ,
     vibrance |-> NoneR, curves |-> NoneS, hue_shift |-> NoneR,
     color_balance |-> NoneQ, selective_color |-> NoneS]

VideoProcessor_speed(v, multiplier) == [v EXCEPT !.speed_multiplier = multiplier]
VideoProcessor_codec(v, codec) ==
    [v EXCEPT !.codec = CASE codec = "h264" -> "libx264"
                          [] codec \in {"h265", "hevc"} -> "libx265"
                          [] codec = "vp9" -> "libvpx-vp9"
                          [] codec = "av1" -> "libaom-av1"
                          [] codec = "prores" -> "prores_ks"
                          [] OTHER -> codec]
VideoProcessor_bitrate(v, mbps)       == [v EXCEPT !.bitrate = Some(mbps)]
VideoProcessor_quality(v, crf)        == [v EXCEPT !.quality = crf]
VideoProcessor_contrast(v, value)     == [v EXCEPT !.contrast = value]
VideoProcessor_saturation(v, value)   == [v EXCEPT !.saturation = value]
VideoProcessor_profile(v, profile)    == [v EXCEPT !.profile = profile]
VideoProcessor_lut(v, lut_file)       == [v EXCEPT !.lut_file = Some(lut_file)]
VideoProcessor_hardware_accel(v, on)  == [v EXCEPT !.hw_accel = on]
VideoProcessor_threads(v, count)      == [v EXCEPT !.threads = Some(count)]
VideoProcessor_stabilize(v, on)       == [v EXCEPT !.stabilize = on]
VideoProcessor_auto_rotate(v, on)     == [v EXCEPT !.auto_rotate = on]
VideoProcessor_denoise(v, strength)   == [v EXCEPT !.denoise = Some(strength)]
VideoProcessor_sharpen(v, strength)   == [v EXCEPT !.sharpen = Some(strength)]
VideoProcessor_scale(v, scale_str)    == [v EXCEPT !.scale = Some(scale_str)]
VideoProcessor_vibrance(v, intensity) == [v EXCEPT !.vibrance = Some(intensity)]
VideoProcessor_curves(v, curves)      == [v EXCEPT !.curves = Some(curves)]
VideoProcessor_hue_shift(v, degrees)  == [v EXCEPT !.hue_shift = Some(degrees)]
VideoProcessor_selective_color(v, config) ==
    [v EXCEPT !.selective_color = Some(config)]

\* color_balance_str(balance_str): balance_str is given split, parts[i][j]
\* the j-th ':'-separated component of its i-th ','-separated part
VideoProcessor_color_balance_str(v, parts) ==
    IF Len(parts) = 3
    THEN LET shadows    == FilterMapParse(parts[1])
             midtones   == FilterMapParse(parts[2])
             highlights == FilterMapParse(parts[3])
         IN  IF Len(shadows) = 3 /\ Len(midtones) = 3 /\ Len(highlights) = 3
             THEN [v EXCEPT !.color_balance =
                               Some(shadows \o midtones \o highlights)]
             ELSE v
    ELSE v

\* get_profile_lut(): the profile's LUT path when the file exists
get_profile_lut(v, on_disk) ==
    CASE v.profile = "DLog" /\ on_disk -> Some("luts/dji_dlog_to_rec709.cube")
      [] v.profile = "SLog" /\ on_disk -> Some("luts/sony_slog_to_rec709.cube")
      [] v.profile = "CLog" /\ on_disk -> Some("luts/canon_clog_to_rec709.cube")
      [] OTHER -> NoneS

\* the build target's hardware acceleration method (linux)
HwAccelMethod == "vaapi"

\* process(), lines 244-275: the command before any filter
StepBase(v) ==
    LET c0 == FFmpegCommand_preserve_metadata(FFmpegCommand_overwrite(
                  FFmpegCommand_quality(
                      FFmpegCommand_video_codec(
                          FFmpegCommand_new(v.input_path, v.output_path), v.codec),
                      v.quality)))
        c1 == IF v.bitrate.some THEN FFmpegCommand_bitrate(c0, v.bitrate.v) ELSE c0
        c2 == IF v.threads.some THEN FFmpegCommand_threads(c1, v.threads.v) ELSE c1
    IN  IF v.hw_accel THEN FFmpegCommand_hardware_accel(c2, HwAccelMethod) ELSE c2

\* process(), the filter steps in source order
StepSpeed(c, v, inf) ==
    IF ~REq(v.speed_multiplier, One)
    THEN FFmpegCommand_speed(c, v.speed_multiplier, inf.has_audio) ELSE c
StepLut(c, v, on_disk) ==
    IF v.lut_file.some THEN FFmpegCommand_lut3d(c, v.lut_file.v)
    ELSE IF get_profile_lut(v, on_disk).some
         THEN FFmpegCommand_lut3d(c, get_profile_lut(v, on_disk).v)
    ELSE c
StepColor(c, v) ==
    IF ~REq(v.contrast, One) \/ ~REq(v.saturation, One)
    THEN FFmpegCommand_color_enhance(c, v.contrast, v.saturation) ELSE c
StepStabilize(c, v) == IF v.stabilize THEN FFmpegCommand_stabilize(c) ELSE c
StepRotate(c, v, inf) ==
    IF v.auto_rotate THEN FFmpegCommand_auto_rotate(c)
    ELSE IF inf.rotation # 0
         THEN CASE inf.rotation = 90 -> FFmpegCommand_rotate(c, 1)
                [] inf.rotation \in {-90, 270} -> FFmpegCommand_rotate(c, 0)
                [] inf.rotation = 180 -> FFmpegCommand_rotate(c, 2)
                [] OTHER -> c
    ELSE c
StepDenoise(c, v)  == IF v.denoise.some THEN FFmpegCommand_denoise(c, v.denoise.v) ELSE c
StepSharpen(c, v)  == IF v.sharpen.some THEN FFmpegCommand_sharpen(c, v.sharpen.v) ELSE c
StepVibrance(c, v) == IF v.vibrance.some THEN FFmpegCommand_vibrance(c, v.vibrance.v) ELSE c
StepCurves(c, v)   == IF v.curves.some THEN FFmpegCommand_curves(c, v.curves.v) ELSE c
StepHue(c, v)      == IF v.hue_shift.some THEN FFmpegCommand_hue_shift(c, v.hue_shift.v) ELSE c
StepBalance(c, v)  ==
    IF v.color_balance.some
    THEN FFmpegCommand_color_balance(c, SubSeq(v.color_balance.v, 1, 3),
                                     SubSeq(v.color_balance.v, 4, 6),
                                     SubSeq(v.color_balance.v, 7, 9))
    ELSE c
StepSelective(c, v) ==
    IF v.selective_color.some
    THEN FFmpegCommand_selective_color(c, v.selective_color.v) ELSE c

\* height_str.parse::<i32>().unwrap_or(-1)
HeightOr(cs) == IF ParseI32(cs).ok THEN ParseI32(cs).v ELSE -1

\* variant: ':' is tried before 'x'
ScaleSplitColonFirst(cs) ==
    IF SplitOnce(cs, ":").found THEN SplitOnce(cs, ":") ELSE SplitOnce(cs, "x")

\* which separator process() splits the scale string at: 'x' when the string
\* holds one, else ':'
ScaleSplit(cs) ==
    IF SplitOnce(cs, "x").found THEN SplitOnce(cs, "x") ELSE SplitOnce(cs, ":")

StepScale(c, v) ==
    IF v.scale.some
    THEN LET sp == ScaleSplit(v.scale.v)
         IN  IF sp.found /\ ParseI32(sp.left).ok
             THEN FFmpegCommand_scale(c, ParseI32(sp.left).v, HeightOr(sp.right))
             ELSE c
    ELSE c

\* variant: the scale step runs first, the speed step last
ProcessFiltersScaleFirst(c, v, inf, on_disk) ==
    StepSpeed(StepSelective(StepBalance(StepHue(StepCurves(StepVibrance(
    StepSharpen(StepDenoise(StepRotate(StepStabilize(StepColor(StepLut(
    StepScale(c, v), v, on_disk), v), v), v, inf), v), v), v), v), v), v), v), v, inf)

\* process(), lines 277-370: the thirteen filter steps
ProcessFilters(c, v, inf, on_disk) ==
    StepScale(StepSelective(StepBalance(StepHue(StepCurves(StepVibrance(
    StepSharpen(StepDenoise(StepRotate(StepStabilize(StepColor(StepLut(
    StepSpeed(c, v, inf), v, on_disk), v), v), v, inf), v), v), v), v), v), v), v), v)

\* the FFmpegCommand process() hands to execute()
ProcessCommand(v, inf, on_disk) == ProcessFilters(StepBase(v), v, inf, on_disk)

-----------------------------------------------------------------------------
(* Inputs *)

Multipliers ==
    {Rat(k, 32) : k \in 1..MaxK32}
    \cup {Rat(Pow(2, j), 1) : j \in 0..MaxExp}
    \cup {Rat(1, Pow(2, j)) : j \in 0..MaxExp}

\* multipliers of every sign: the CLI passes any f64 on (main.rs:26-28, 197)
LoopMultipliers ==
    {Rat(k, 4) : k \in -12..12} \cup {Rat(5, 1), Rat(8, 1), Rat(1, 8), Rat(1, 16)}

\* what the prober reports of the input file
Infos == [has_audio : BOOLEAN, rotation : {0, 90, 180}]
NoInfo == [has_audio |-> FALSE, rotation |-> 0]

NoCall == [op |-> "none"]

InputPath  == "in.mp4"
OutputPath == "out.mp4"

\* strings of at most n characters of the alphabet
RECURSIVE StringsUpTo(_, _)
StringsUpTo(alphabet, n) ==
    IF n = 0 THEN {<<>>}
    ELSE LET shorter == StringsUpTo(alphabet, n - 1)
         IN  shorter \cup {Append(t, ch) : t \in shorter, ch \in alphabet}

ScaleAlphabet == {"1", "-", "x", ":", "a"}
ScaleStrings(n) == StringsUpTo(ScaleAlphabet, n)

\* "1920x1080", "1920:-1", a string without separator and a width beyond i32
Scale1920x1080 == <<"1", "9", "2", "0", "x", "1", "0", "8", "0">>
ScaleBeyondI32 == <<"9", "9", "9", "9", "9", "9", "9", "9", "9", "9", "x", "1">>
Scale1920Auto  == <<"1", "9", "2", "0", ":", "-", "1">>
ScaleWide      == <<"w", "i", "d", "e">>

\* the components a part of a colour balance string is made of
BalanceTokens == {"0.1", "x"}
\* the parts of 1..maxcomps components
BalanceParts(maxcomps) == StringsUpTo(BalanceTokens, maxcomps) \ {<<>>}
\* the strings of 1..maxparts parts
BalanceStrings(maxparts, maxcomps) ==
    UNION {[1..n -> BalanceParts(maxcomps)] : n \in 1..maxparts}

\* "0.1:-0.1:0,0:0:0,-0.1:0:0.1" and "0.1:-0.1,0:0:0,0:0:0"
BalanceGood == << <<"0.1", "-0.1", "0">>, <<"0", "0", "0">>, <<"-0.1", "0", "0.1">> >>
BalanceShort == << <<"0.1", "-0.1">>, <<"0", "0", "0">>, <<"0", "0", "0">> >>
\* a well-formed string of an earlier call
BalanceEarlier == << <<"0.125", "0", "0">>, <<"0", "0", "0">>, <<"0", "0", "0.125">> >>

-----------------------------------------------------------------------------
(* Actions on an FFmpegCommand (the builder used directly) *)

CmdSet(c) ==
    /\ cmd' = c
    /\ UNCHANGED <<vp, args, info, lut_on_disk, call, first_call, pc, job>>

Cmd_video_codec ==
    /\ pc = "config"
    /\ CmdSet(FFmpegCommand_video_codec(cmd, "libx265"))
Cmd_audio_codec ==
    /\ pc = "config"
    /\ CmdSet(FFmpegCommand_audio_codec(cmd, "aac"))
Cmd_bitrate ==
    /\ pc = "config"
    /\ CmdSet(FFmpegCommand_bitrate(cmd, 16))
Cmd_quality ==
    /\ pc = "config"
    /\ CmdSet(FFmpegCommand_quality(cmd, 20))
Cmd_preset ==
    /\ pc = "config"
    /\ CmdSet(FFmpegCommand_preset(cmd, "fast"))
Cmd_threads ==
    /\ pc = "config"
    /\ CmdSet(FFmpegCommand_threads(cmd, 4))
Cmd_overwrite ==
    /\ pc = "config"
    /\ CmdSet(FFmpegCommand_overwrite(cmd))
Cmd_hardware_accel ==
    /\ pc = "config"
    /\ CmdSet(FFmpegCommand_hardware_accel(cmd, "vaapi"))
Cmd_video_filter ==
    /\ pc = "config"
    /\ Len(cmd.video_filters) < MaxFilters
    /\ CmdSet(FFmpegCommand_video_filter(cmd, "hflip"))
Cmd_audio_filter ==
    /\ pc = "config"
    /\ Len(cmd.audio_filters) < MaxFilters
    /\ CmdSet(FFmpegCommand_audio_filter(cmd, "volume=2"))
Cmd_preserve_metadata ==
    /\ pc = "config"
    /\ Len(cmd.metadata_args) < 4 * MaxPreserveCalls
    /\ CmdSet(FFmpegCommand_preserve_metadata(cmd))
Cmd_custom_args ==
    \E more \in {<<"-an">>, <<"-t", "10">>} :
        /\ pc = "config"
        /\ Len(cmd.extra_args) + Len(more) <= MaxExtraArgs
        /\ CmdSet(FFmpegCommand_custom_args(cmd, more))

\* variant: build() drains the filter lists it has rendered
Cmd_build_draining ==
    /\ pc \in {"config", "built"}
    /\ args' = FFmpegCommand_build(cmd)
    /\ cmd' = [cmd EXCEPT !.video_filters = <<>>, !.audio_filters = <<>>]
    /\ call' = [op |-> "build", again |-> pc = "built",
                before |-> cmd, earlier |-> args]
    /\ pc' = "built"
    /\ UNCHANGED <<vp, info, lut_on_disk, first_call, job>>

\* build(&self), once or again on the same command: the command is left as
\* it is; call keeps the command and the arguments from before the call
Cmd_build ==
    /\ pc \in {"config", "built"}
    /\ args' = FFmpegCommand_build(cmd)
    /\ call' = [op |-> "build", again |-> pc = "built",
                before |-> cmd, earlier |-> args]
    /\ pc' = "built"
    /\ UNCHANGED <<vp, cmd, info, lut_on_disk, first_call, job>>

\* speed(multiplier, has_audio) on a command, once
Cmd_speed ==
    /\ pc = "config"
    /\ \E m \in Multipliers, a \in BOOLEAN :
           /\ cmd' = FFmpegCommand_speed(cmd, m, a)
           /\ call' = [op |-> "speed", multiplier |-> m, has_audio |-> a,
                       before |-> cmd]
    /\ pc' = "called"
    /\ UNCHANGED <<vp, args, info, lut_on_disk, first_call, job>>

\* speed(multiplier, has_audio) turn by turn of its loops, for every f64
\* multiplier; the local `current`, and the parity of the turns taken, are
\* kept in the call record.

\* -inf, which a negative f64 reaches by doubling; the model's f64 overflows
\* beyond 2^MaxExp
NegInf == [n |-> -1, d |-> 0]
DoubleF64(x) ==
    IF x.d = 0 THEN x
    ELSE IF RLt(RDouble(x), Rat(-Pow(2, MaxExp), 1)) THEN NegInf
    ELSE RDouble(x)

\* format!("setpts={:.4}*PTS", 1.0 / multiplier), 1.0 / 0.0 being inf
SetptsStageF64(multiplier) ==
    IF multiplier.n = 0 THEN RawStage("setpts=inf*PTS")
    ELSE IF multiplier.n < 0
    THEN Stage("setpts",
               <<FmtRound([n |-> -multiplier.d, d |-> -multiplier.n], 4)>>, 4, "")
    ELSE SetptsStage(multiplier)

\* self.audio_filters.push(..), recorded up to MaxStages stages
PushAudioRecorded(c, st) ==
    IF Len(c.audio_filters) < MaxStages THEN PushAudio(c, st) ELSE c

SpeedLocals(m, a, before, current) ==
    [op |-> "speed", multiplier |-> m, has_audio |-> a, before |-> before,
     current |-> current, odd |-> FALSE]

\* lines 110-121: the call, up to the entry of the first loop
Speed_enter ==
    /\ pc = "config"
    /\ \E m \in LoopMultipliers, a \in BOOLEAN :
         /\ call' = SpeedLocals(m, a, cmd, m)
         /\ IF REq(m, One)
            THEN cmd' = cmd /\ pc' = "called"
            ELSE IF ~a
            THEN cmd' = PushVideo(cmd, SetptsStageF64(m)) /\ pc' = "called"
            ELSE IF InTempoRange(m)
            THEN /\ cmd' = PushAudio(PushVideo(cmd, SetptsStageF64(m)),
                                     AtempoStage(m))
                 /\ pc' = "called"
            ELSE /\ cmd' = PushVideo(cmd, SetptsStageF64(m))
                 /\ pc' = "halving"
    /\ UNCHANGED <<vp, args, info, lut_on_disk, first_call, job>>

\* lines 124-127: one turn of while current > 2.0
Speed_halve ==
    /\ pc = "halving"
    /\ RLt(Two, call.current)
    /\ cmd' = PushAudioRecorded(cmd, AtempoTwo)
    /\ call' = [call EXCEPT !.current = RHalf(@), !.odd = ~@]
    /\ UNCHANGED <<vp, args, info, lut_on_disk, first_call, pc, job>>

\* lines 124-130: the halving loop left, the residual stage above 1.0
Speed_halved ==
    /\ pc = "halving"
    /\ ~RLt(Two, call.current)
    /\ cmd' = IF RLt(One, call.current)
              THEN PushAudioRecorded(cmd, AtempoStage(call.current))
              ELSE cmd
    /\ pc' = "doubling"
    /\ UNCHANGED <<vp, args, info, lut_on_disk, call, first_call, job>>

\* lines 132-135: one turn of while current < 0.5
Speed_double ==
    /\ pc = "doubling"
    /\ RLt(call.current, OneHalf)
    /\ cmd' = PushAudioRecorded(cmd, AtempoHalf)
    /\ call' = [call EXCEPT !.current = DoubleF64(@), !.odd = ~@]
    /\ UNCHANGED <<vp, args, info, lut_on_disk, first_call, pc, job>>

\* lines 132-138: the doubling loop left, the residual stage below 1.0
Speed_doubled ==
    /\ pc = "doubling"
    /\ ~RLt(call.current, OneHalf)
    /\ cmd' = IF RLt(call.current, One)
              THEN PushAudioRecorded(cmd, AtempoStage(call.current))
              ELSE cmd
    /\ pc' = "called"
    /\ UNCHANGED <<vp, args, info, lut_on_disk, call, first_call, job>>

-----------------------------------------------------------------------------
(* Actions on a VideoProcessor *)

\* the options that differ from VideoProcessor::new()
OptionCount(v) ==
    Cardinality({f \in DOMAIN v : v[f] # VideoProcessor_new(InputPath, OutputPath)[f]})

VpSet(name, v) ==
    /\ pc = "config"
    /\ OptionCount(v) <= MaxOptions \/ OptionCount(v) <= OptionCount(vp)
    /\ vp' = v
    /\ first_call' = IF first_call # "none" THEN first_call
                     ELSE IF name = "scale" THEN "scale" ELSE "other"
    /\ UNCHANGED <<cmd, args, info, lut_on_disk, pc, job>>

VP_speed ==
    /\ \E m \in {One, Rat(3, 1)} : VpSet("speed", VideoProcessor_speed(vp, m))
    /\ UNCHANGED call
VP_contrast ==
    /\ \E x \in {One, Rat(11, 10)} : VpSet("contrast", VideoProcessor_contrast(vp, x))
    /\ UNCHANGED call
VP_saturation ==
    /\ \E x \in {One, Rat(6, 5)} : VpSet("saturation", VideoProcessor_saturation(vp, x))
    /\ UNCHANGED call
VP_profile ==
    /\ \E x \in {"Standard", "DLog"} : VpSet("profile", VideoProcessor_profile(vp, x))
    /\ UNCHANGED call
VP_lut ==
    /\ VpSet("lut", VideoProcessor_lut(vp, "grade.cube"))
    /\ UNCHANGED call
VP_stabilize ==
    /\ \E on \in BOOLEAN : VpSet("stabilize", VideoProcessor_stabilize(vp, on))
    /\ UNCHANGED call
VP_auto_rotate ==
    /\ \E on \in BOOLEAN : VpSet("auto_rotate", VideoProcessor_auto_rotate(vp, on))
    /\ UNCHANGED call
VP_denoise ==
    /\ VpSet("denoise", VideoProcessor_denoise(vp, 3))
    /\ UNCHANGED call
VP_sharpen ==
    /\ VpSet("sharpen", VideoProcessor_sharpen(vp, Rat(1, 4)))
    /\ UNCHANGED call
VP_vibrance ==
    /\ VpSet("vibrance", VideoProcessor_vibrance(vp, Rat(3, 10)))
    /\ UNCHANGED call
VP_curves ==
    /\ VpSet("curves", VideoProcessor_curves(vp, "preset=lighter"))
    /\ UNCHANGED call
VP_hue_shift ==
    /\ VpSet("hue_shift", VideoProcessor_hue_shift(vp, Rat(15, 1)))
    /\ UNCHANGED call
VP_selective_color ==
    /\ VpSet("selective_color",
             VideoProcessor_selective_color(vp, "reds=0:-0.05:0.05:0"))
    /\ UNCHANGED call
VP_scale(strings) ==
    /\ \E str \in strings : VpSet("scale", VideoProcessor_scale(vp, str))
    /\ UNCHANGED call
\* log: whether the call is recorded in call
VP_color_balance_str(strings, log) ==
    \E parts \in strings :
        /\ VpSet("color_balance_str", VideoProcessor_color_balance_str(vp, parts))
        /\ call' = IF log THEN [op |-> "color_balance_str", parts |-> parts,
                                 before |-> vp.color_balance]
                          ELSE call

\* process(): probe, assemble the command, build its arguments for execute()
VP_process(infos) ==
    /\ pc = "config"
    /\ \E inf \in infos :
           LET c == ProcessCommand(vp, inf, lut_on_disk)
           IN  /\ info' = inf
               /\ cmd' = c
               /\ args' = FFmpegCommand_build(c)
    /\ pc' = "processed"
    /\ UNCHANGED <<vp, lut_on_disk, call, first_call, job>>

\* process() when check_ffmpeg() or get_video_info() returns an error
VP_process_fail ==
    /\ pc = "config"
    /\ pc' = "failed"
    /\ UNCHANGED <<vp, cmd, args, info, lut_on_disk, call, first_call, job>>

-----------------------------------------------------------------------------
(* execute(): one job *)

\* A diagnostic line is the abstract syntax of its text: dur holds the four
\* two-digit fields of a "Duration: HH:MM:SS.CC" match, time those of a
\* "time=HH:MM:SS.CC" match, <<>> when the pattern does not match the line.
\* valid tells whether the bytes of the line are UTF-8, which lines() needs.
DurationLine(f) == [dur |-> f, time |-> <<>>, valid |-> TRUE]
ProgressLine(f) == [dur |-> <<>>, time |-> f, valid |-> TRUE]
OtherLine       == [dur |-> <<>>, time |-> <<>>, valid |-> TRUE]
InvalidLine     == [dur |-> <<>>, time |-> <<>>, valid |-> FALSE]

\* the digits of the four fields, as the engine prints them
FieldsText(f) ==
    Digits(f[1], 2) \o ":" \o Digits(f[2], 2) \o ":" \o Digits(f[3], 2)
    \o "." \o Digits(f[4], 2)

\* the text of a line
RenderLine(line) ==
    IF line.dur # <<>>
    THEN "  Duration: " \o FieldsText(line.dur) \o ", start: 0.000000"
    ELSE IF line.time # <<>>
    THEN "frame=    1 fps=0.0 time=" \o FieldsText(line.time) \o " speed=1x"
    ELSE "Press [q] to stop, [?] for help"

\* hours * 3600.0 + minutes * 60.0 + seconds + centis / 100.0, in seconds
FieldSeconds(f) == Rat(((f[1] * 60 + f[2]) * 60 + f[3]) * 100 + f[4], 100)

\* variant: the percentage is not capped
PercentUncapped(current_time, duration) ==
    IF duration.n = 0 THEN Rat(100, 1)
    ELSE Rat(current_time.n * duration.d * 100, current_time.d * duration.n)

\* (current_time / duration * 100.0).min(100.0); for duration 0.0 the
\* quotient is +inf or NaN, and f64::min gives 100.0 for both
Percent(current_time, duration) ==
    IF duration.n = 0 THEN Rat(100, 1)
    ELSE LET p == Rat(current_time.n * duration.d * 100,
                      current_time.d * duration.n)
         IN  IF RLt(Rat(100, 1), p) THEN Rat(100, 1) ELSE p

Sample(progress, line) == [progress |-> progress, line |-> line]

\* the total duration after the reader has handled the line (lines 432-440)
ReaderTotal(total, line) ==
    IF ~total.some /\ line.dur # <<>> THEN Some(FieldSeconds(line.dur)) ELSE total

\* the samples the reader sends for the line (lines 443-457)
ReaderSamples(total, line) ==
    (IF line.time # <<>> /\ ReaderTotal(total, line).some
     THEN <<Sample(Percent(FieldSeconds(line.time), ReaderTotal(total, line).v),
                   line)>>
     ELSE <<>>)
    \o <<Sample(Rat(0, 1), line)>>

\* progress_callback(progress, format!("Processing: {:.1}%", progress))
CallbackArgs(progress) ==
    [progress |-> progress,
     message |-> "Processing: " \o FmtText(FmtRound(progress, 1), 1) \o "%"]

\* what the child's exit status is: status.code() is None after a signal
ExitedWith(code) == [exited |-> TRUE, code |-> code]
NoStatus == [exited |-> FALSE, code |-> NoneI]
\* status.success()
Success(st) == st.code = Some(0)

\* format!("{:?}", status.code())
CodeDebug(code) ==
    IF code.some THEN "Some(" \o ToString(code.v) \o ")" ELSE "None"

\* what execute() returns: Ok(()) or an anyhow::Error, given by the type of
\* the value the error wraps and the pieces its message is formatted from
NoResult == [kind |-> "none", type |-> "", message |-> <<>>]
OkResult == [kind |-> "Ok", type |-> "()", message |-> <<>>]
\* cmd.spawn().context("Failed to spawn FFmpeg process")?
SpawnError ==
    [kind |-> "Err", type |-> "ContextError<&str, io::Error>",
     message |-> <<"Failed to spawn FFmpeg process">>]
\* child.wait().context("Failed to wait for FFmpeg process")?
WaitError ==
    [kind |-> "Err", type |-> "ContextError<&str, io::Error>",
     message |-> <<"Failed to wait for FFmpeg process">>]
\* bail!("FFmpeg failed with exit code: {:?}. Check logs for details.", ..)
ExitError(st) ==
    [kind |-> "Err", type |-> "String",
     message |-> <<"FFmpeg failed with exit code: ", CodeDebug(st.code),
                   ". Check logs for details.">>]

\* what the job leaves alone
caller == <<vp, cmd, info, lut_on_disk, call, first_call, pc>>
\* the stdout side of the child, which only the child touches
stdout_side == <<out_script, out_pipe>>

\* lines 398-408, spawn succeeds: the child runs with stderr piped
Exec_spawn ==
    /\ fg = "start"
    /\ args' = FFmpegCommand_build(cmd)
    /\ spawns' = spawns + 1
    /\ child' = "running"
    /\ fg' = "spawned"
    /\ UNCHANGED <<caller, stdout_side, fg_output, script, pipe, status, reader, total_duration,
                   all_output, chan, tx_open, consumer, callbacks, received,
                   logged, result>>

\* variant: a failed spawn is tried a second time
Exec_spawn_fail_retry ==
    /\ fg = "start"
    /\ args' = FFmpegCommand_build(cmd)
    /\ spawns' = spawns + 1
    /\ IF spawns = 0
       THEN fg' = "start" /\ result' = result
       ELSE fg' = "returned" /\ result' = SpawnError
    /\ UNCHANGED <<caller, stdout_side, fg_output, child, script, pipe, status, reader, total_duration,
                   all_output, chan, tx_open, consumer, callbacks, received, logged>>

\* lines 398-408, spawn fails: execute() returns the error
Exec_spawn_fail ==
    /\ fg = "start"
    /\ args' = FFmpegCommand_build(cmd)
    /\ spawns' = spawns + 1
    /\ result' = SpawnError
    /\ fg' = "returned"
    /\ UNCHANGED <<caller, stdout_side, fg_output, child, script, pipe, status, reader, total_duration,
                   all_output, chan, tx_open, consumer, callbacks, received, logged>>

\* lines 410-460: stderr taken, the channel made, the reader thread spawned
Exec_start_reader ==
    /\ fg = "spawned"
    /\ reader' = "running"
    /\ tx_open' = TRUE
    /\ fg' = "reader_started"
    /\ UNCHANGED <<caller, stdout_side, fg_output, args, spawns, child, script, pipe, status,
                   total_duration, all_output, chan, consumer, callbacks,
                   received, logged, result>>

\* lines 462-469: the consumer thread spawned, its handle dropped
Exec_start_consumer ==
    /\ fg = "reader_started"
    /\ consumer' = "running"
    /\ fg' = "waiting"
    /\ UNCHANGED <<caller, stdout_side, fg_output, args, spawns, child, script, pipe, status, reader,
                   total_duration, all_output, chan, tx_open, callbacks, received,
                   logged, result>>

\* line 472: child.wait() returns the status of the exited child
Exec_wait ==
    /\ fg = "waiting"
    /\ child = "exited"
    /\ fg' = "joining"
    /\ UNCHANGED <<caller, stdout_side, fg_output, args, spawns, child, script, pipe, status, reader,
                   total_duration, all_output, chan, tx_open, consumer,
                   callbacks, received, logged, result>>

\* line 472: child.wait() returns an error, which execute() returns
Exec_wait_fail ==
    /\ fg = "waiting"
    /\ result' = WaitError
    /\ fg' = "returned"
    /\ UNCHANGED <<caller, stdout_side, fg_output, args, spawns, child, script, pipe, status, reader,
                   total_duration, all_output, chan, tx_open, consumer,
                   callbacks, received, logged>>

\* variant: the foreground takes the transcript without joining the reader
Exec_join_early ==
    /\ fg = "joining"
    /\ IF Success(status)
       THEN result' = OkResult /\ logged' = logged
       ELSE result' = ExitError(status) /\ logged' = all_output
    /\ fg_output' = Some(all_output)
    /\ fg' = "returned"
    /\ UNCHANGED <<caller, stdout_side, args, spawns, child, script, pipe,
                   status, reader, total_duration, all_output, chan, tx_open,
                   consumer, callbacks, received>>

\* lines 475-487: the reader joined, the status reconciled
Exec_join ==
    /\ fg = "joining"
    /\ reader = "done"
    /\ IF Success(status)
       THEN result' = OkResult /\ logged' = logged
       ELSE result' = ExitError(status) /\ logged' = all_output
    /\ fg_output' = Some(all_output)
    /\ fg' = "returned"
    /\ UNCHANGED <<caller, stdout_side, args, spawns, child, script, pipe,
                   status, reader, total_duration, all_output, chan, tx_open,
                   consumer, callbacks, received>>

\* the engine writes its next diagnostic line to stderr: the write waits
\* while the pipe is full, and is lost once the reader has dropped its end
Child_write ==
    /\ child = "running"
    /\ script # <<>>
    /\ reader = "done" \/ Len(pipe) < PipeCap
    /\ pipe' = IF reader = "done" THEN pipe ELSE Append(pipe, Head(script))
    /\ script' = Tail(script)
    /\ UNCHANGED <<caller, stdout_side, fg_output, args, fg, spawns, child,
                   status, reader, total_duration, all_output, chan, tx_open,
                   consumer, callbacks, received, logged, result>>

\* the engine writes its next chunk to stdout: the write waits while the
\* pipe is full
Child_write_stdout ==
    /\ child = "running"
    /\ out_script > 0
    /\ out_pipe < PipeCap
    /\ out_pipe' = out_pipe + 1
    /\ out_script' = out_script - 1
    /\ UNCHANGED <<caller, fg_output, args, fg, spawns, child, script, pipe,
                   status, reader, total_duration, all_output, chan, tx_open,
                   consumer, callbacks, received, logged, result>>

\* the engine exits by itself once it has written all it had to write
Child_exit ==
    /\ child = "running"
    /\ script = <<>>
    /\ out_script = 0
    /\ \E code \in {0, 1} : status' = ExitedWith(Some(code))
    /\ child' = "exited"
    /\ UNCHANGED <<caller, stdout_side, fg_output, args, fg, spawns, script,
                   pipe, reader, total_duration, all_output, chan, tx_open,
                   consumer, callbacks, received, logged, result>>

\* the engine is terminated by a signal, at any point of its run
Child_killed ==
    /\ child = "running"
    /\ status' = ExitedWith(NoneI)
    /\ child' = "exited"
    /\ script' = <<>>
    /\ out_script' = 0
    /\ UNCHANGED <<caller, out_pipe, fg_output, args, fg, spawns, pipe, reader, total_duration,
                   all_output, chan, tx_open, consumer, callbacks, received,
                   logged, result>>

\* variant: every duration line sets the total duration
Reader_line_last_duration ==
    /\ reader = "running"
    /\ pipe # <<>>
    /\ Head(pipe).valid
    /\ LET line  == Head(pipe)
           total == IF line.dur # <<>> THEN Some(FieldSeconds(line.dur))
                    ELSE total_duration
       IN  /\ all_output' = Append(all_output, line)
           /\ total_duration' = total
           /\ chan' = chan \o ReaderSamples(total, line)
    /\ pipe' = Tail(pipe)
    /\ UNCHANGED <<caller, stdout_side, fg_output, args, fg, spawns, child, script, status, reader,
                   tx_open, consumer, callbacks, received, logged, result>>

\* lines 427-458, one turn of the reader's loop on the next line of stderr
Reader_line ==
    /\ reader = "running"
    /\ pipe # <<>>
    /\ Head(pipe).valid
    /\ LET line == Head(pipe)
       IN  /\ all_output' = Append(all_output, line)
           /\ total_duration' = ReaderTotal(total_duration, line)
           /\ chan' = chan \o ReaderSamples(total_duration, line)
    /\ pipe' = Tail(pipe)
    /\ UNCHANGED <<caller, stdout_side, fg_output, args, fg, spawns, child, script, status, reader,
                   tx_open, consumer, callbacks, received, logged, result>>

\* line 426: lines() yields Err for a line that is not UTF-8 and
\* map_while(Result::ok) ends the loop; the thread returns all_output, its
\* sender and its end of the pipe are dropped
Reader_read_error ==
    /\ reader = "running"
    /\ pipe # <<>>
    /\ ~Head(pipe).valid
    /\ pipe' = <<>>
    /\ reader' = "done"
    /\ tx_open' = FALSE
    /\ UNCHANGED <<caller, stdout_side, fg_output, args, fg, spawns, child,
                   script, status, total_duration, all_output, chan, consumer,
                   callbacks, received, logged, result>>

\* lines 427 and 459: stderr is at its end, the thread returns all_output
\* and its sender is dropped
Reader_eof ==
    /\ reader = "running"
    /\ pipe = <<>>
    /\ child = "exited"
    /\ reader' = "done"
    /\ tx_open' = FALSE
    /\ UNCHANGED <<caller, stdout_side, fg_output, args, fg, spawns, child, script, pipe, status,
                   total_duration, all_output, chan, consumer, callbacks,
                   received, logged, result>>

\* variant: the consumer passes every sample to the callback
Consumer_recv_all ==
    /\ consumer = "running"
    /\ received < Len(chan)
    /\ callbacks' = Append(callbacks, CallbackArgs(chan[received + 1].progress))
    /\ received' = received + 1
    /\ UNCHANGED <<caller, stdout_side, fg_output, args, fg, spawns, child, script, pipe, status,
                   reader, total_duration, all_output, chan, tx_open, consumer,
                   logged, result>>

\* variant: the consumer never lets the percentage go back
Consumer_recv_monotonic ==
    /\ consumer = "running"
    /\ received < Len(chan)
    /\ callbacks' =
         IF RLt(Rat(0, 1), chan[received + 1].progress)
         THEN Append(callbacks,
                     IF /\ callbacks # <<>>
                        /\ RLt(chan[received + 1].progress,
                               callbacks[Len(callbacks)].progress)
                     THEN callbacks[Len(callbacks)]
                     ELSE CallbackArgs(chan[received + 1].progress))
         ELSE callbacks
    /\ received' = received + 1
    /\ UNCHANGED <<caller, stdout_side, fg_output, args, fg, spawns, child, script, pipe, status,
                   reader, total_duration, all_output, chan, tx_open, consumer,
                   logged, result>>

\* lines 464-468, rx.recv() returns the oldest sample not yet received
Consumer_recv ==
    /\ consumer = "running"
    /\ received < Len(chan)
    /\ callbacks' =
         IF RLt(Rat(0, 1), chan[received + 1].progress)
         THEN Append(callbacks, CallbackArgs(chan[received + 1].progress))
         ELSE callbacks
    /\ received' = received + 1
    /\ UNCHANGED <<caller, stdout_side, fg_output, args, fg, spawns, child, script, pipe, status,
                   reader, total_duration, all_output, chan, tx_open, consumer,
                   logged, result>>

\* variant: the consumer stops as soon as it finds the channel empty
Consumer_exit_empty ==
    /\ consumer = "running"
    /\ received = Len(chan)
    /\ consumer' = "done"
    /\ UNCHANGED <<caller, stdout_side, fg_output, args, fg, spawns, child,
                   script, pipe, status, reader, total_duration, all_output,
                   chan, tx_open, callbacks, received, logged, result>>

\* line 464, rx.recv() returns an error: the channel is empty and its
\* sender dropped
Consumer_exit ==
    /\ consumer = "running"
    /\ received = Len(chan)
    /\ ~tx_open
    /\ consumer' = "done"
    /\ UNCHANGED <<caller, stdout_side, fg_output, args, fg, spawns, child, script, pipe, status,
                   reader, total_duration, all_output, chan, tx_open,
                   callbacks, received, logged, result>>

\* before execute() is called
JobIdle ==
    /\ fg = "idle" /\ spawns = 0
    /\ child = "none" /\ script = <<>> /\ pipe = <<>> /\ status = NoStatus
    /\ reader = "none" /\ total_duration = NoneR /\ all_output = <<>>
    /\ chan = <<>> /\ tx_open = FALSE
    /\ consumer = "none" /\ callbacks = <<>> /\ received = 0
    /\ logged = <<>> /\ result = NoResult
    /\ out_script = 0 /\ out_pipe = 0 /\ fg_output = NoneQ

-----------------------------------------------------------------------------
(* The command line: main() of speedy-cli *)

\* Preset::from_name(name), for the names of the presets modelled
Preset_from_name(name) ==
    IF name \in {"dji-dlog", "dji", "gopro", "sony-slog", "youtube",
                 "cinema4k", "preview"}
    THEN Some(name) ELSE NoneS

\* Preset::apply(processor)
Preset_apply(preset, v) ==
    CASE preset = "dji-dlog" ->
           VideoProcessor_quality(VideoProcessor_codec(
             VideoProcessor_stabilize(VideoProcessor_auto_rotate(
               VideoProcessor_vibrance(VideoProcessor_contrast(
                 VideoProcessor_profile(v, "DLog"),
                 Rat(23, 20)), Rat(3, 10)), TRUE), TRUE), "h265"), 20)
      [] preset = "dji" ->
           VideoProcessor_quality(VideoProcessor_codec(
             VideoProcessor_stabilize(VideoProcessor_auto_rotate(
               VideoProcessor_saturation(VideoProcessor_contrast(v,
                 Rat(21, 20)), Rat(21, 20)), TRUE), TRUE), "h265"), 22)
      [] preset = "gopro" ->
           VideoProcessor_quality(VideoProcessor_codec(
             VideoProcessor_sharpen(VideoProcessor_stabilize(
               VideoProcessor_saturation(VideoProcessor_contrast(v,
                 Rat(11, 10)), Rat(23, 20)), TRUE), Rat(1, 2)), "h264"), 22)
      [] preset = "sony-slog" ->
           VideoProcessor_quality(VideoProcessor_codec(
             VideoProcessor_saturation(VideoProcessor_contrast(
               VideoProcessor_profile(v, "SLog"),
               Rat(6, 5)), Rat(23, 20)), "h265"), 20)
      [] preset = "youtube" ->
           VideoProcessor_saturation(VideoProcessor_contrast(
             VideoProcessor_bitrate(VideoProcessor_quality(
               VideoProcessor_codec(v, "h264"), 18), 16),
             Rat(21, 20)), Rat(21, 20))
      [] preset = "cinema4k" ->
           VideoProcessor_saturation(VideoProcessor_contrast(
             VideoProcessor_quality(VideoProcessor_codec(v, "prores"), 0),
             One), One)
      [] preset = "preview" ->
           VideoProcessor_threads(VideoProcessor_quality(
             VideoProcessor_codec(v, "h264"), 28), 1)

\* the options of the command line that have a default_value or are flags
\* (main.rs:26-28, 34-72), and those that are Option<..> (main.rs:30-104)
CliDefaulted ==
    {"speed", "codec", "quality", "profile", "contrast", "saturation",
     "hw_accel", "stabilize", "no_auto_rotate"}
CliOptional ==
    {"bitrate", "threads", "lut", "denoise", "sharpen", "vibrance", "curves",
     "hue_shift", "color_balance", "selective_color", "scale"}

\* what clap gives for a defaulted option or a flag the user left out
CliDefault(option) ==
    CASE option = "speed" -> One
      [] option = "codec" -> "h264"
      [] option = "quality" -> 23
      [] option = "profile" -> "Standard"
      [] option = "contrast" -> One
      [] option = "saturation" -> One
      [] option \in {"hw_accel", "stabilize", "no_auto_rotate"} -> FALSE

\* the value the user of the model gives for an option, when giving it
CliGiven(option) ==
    CASE option = "speed" -> Rat(2, 1)
      [] option = "codec" -> "vp9"
      [] option = "quality" -> 30
      [] option = "profile" -> "CLog"
      [] option = "contrast" -> Rat(13, 10)
      [] option = "saturation" -> Rat(7, 5)
      [] option \in {"hw_accel", "stabilize", "no_auto_rotate"} -> TRUE
      [] option = "bitrate" -> 8
      [] option = "threads" -> 4
      [] option = "lut" -> "grade.cube"
      [] option = "denoise" -> 3
      [] option = "sharpen" -> Rat(1, 4)
      [] option = "vibrance" -> Rat(1, 5)
      [] option = "curves" -> "preset=lighter"
      [] option = "hue_shift" -> Rat(15, 1)
      [] option = "color_balance" -> BalanceGood
      [] option = "selective_color" -> "reds=0:-0.05:0.05:0"
      [] option = "scale" -> Scale1920Auto

\* Args::parse(): the field of a defaulted option
CliArg(given, option) ==
    IF option \in given THEN CliGiven(option) ELSE CliDefault(option)

\* main.rs:195-205, "Apply individual settings"
CliIndividual(given, v) ==
    VideoProcessor_auto_rotate(VideoProcessor_stabilize(
      VideoProcessor_hardware_accel(VideoProcessor_saturation(
        VideoProcessor_contrast(VideoProcessor_profile(
          VideoProcessor_quality(VideoProcessor_codec(
            VideoProcessor_speed(v, CliArg(given, "speed")),
            CliArg(given, "codec")), CliArg(given, "quality")),
          CliArg(given, "profile")), CliArg(given, "contrast")),
        CliArg(given, "saturation")), CliArg(given, "hw_accel")),
      CliArg(given, "stabilize")), ~CliArg(given, "no_auto_rotate"))

\* main.rs:207-249, "Apply optional settings"
CliOptionalSettings(given, v) ==
    LET Maybe(option, w, set) == IF option \in given THEN set ELSE w
        v1  == Maybe("bitrate", v, VideoProcessor_bitrate(v, CliGiven("bitrate")))
        v2  == Maybe("threads", v1, VideoProcessor_threads(v1, CliGiven("threads")))
        v3  == Maybe("lut", v2, VideoProcessor_lut(v2, CliGiven("lut")))
        v4  == Maybe("denoise", v3, VideoProcessor_denoise(v3, CliGiven("denoise")))
        v5  == Maybe("sharpen", v4, VideoProcessor_sharpen(v4, CliGiven("sharpen")))
        v6  == Maybe("vibrance", v5,
                     VideoProcessor_vibrance(v5, CliGiven("vibrance")))
        v7  == Maybe("curves", v6, VideoProcessor_curves(v6, CliGiven("curves")))
        v8  == Maybe("hue_shift", v7,
                     VideoProcessor_hue_shift(v7, CliGiven("hue_shift")))
        v9  == Maybe("color_balance", v8,
                     VideoProcessor_color_balance_str(v8, CliGiven("color_balance")))
        v10 == Maybe("selective_color", v9,
                     VideoProcessor_selective_color(v9, CliGiven("selective_color")))
    IN  Maybe("scale", v10, VideoProcessor_scale(v10, CliGiven("scale")))

\* main.rs:178-249: the processor main() calls process() on
CliProcessor(preset, given) ==
    LET v0 == VideoProcessor_new(InputPath, OutputPath)
        v1 == IF preset.some
              THEN Preset_apply(Preset_from_name(preset.v).v, v0) ELSE v0
    IN  CliOptionalSettings(given, CliIndividual(given, v1))

\* main(), from the parsed arguments to the call of process()
Cli_main ==
    /\ pc = "cli"
    /\ IF call.preset.some /\ ~Preset_from_name(call.preset.v).some
       THEN vp' = vp /\ pc' = "failed"
       ELSE vp' = CliProcessor(call.preset, call.given) /\ pc' = "config"
    /\ UNCHANGED <<cmd, args, info, lut_on_disk, call, first_call, job>>

\* main.rs:136-172: no FFmpeg, or no input file: main() ends with the error
Cli_main_fail ==
    /\ pc = "cli"
    /\ pc' = "failed"
    /\ UNCHANGED <<vp, cmd, args, info, lut_on_disk, call, first_call, job>>

-----------------------------------------------------------------------------
(* Specifications *)

InitCommon ==
    /\ vp = VideoProcessor_new(InputPath, OutputPath)
    /\ cmd = FFmpegCommand_new(InputPath, OutputPath)
    /\ args = <<>>
    /\ info = NoInfo
    /\ lut_on_disk = FALSE
    /\ call = NoCall
    /\ first_call = "none"
    /\ pc = "config"
    /\ JobIdle

\* speed() called on a command that holds no filter or one of each track
InitSpeed ==
    /\ vp = VideoProcessor_new(InputPath, OutputPath)
    /\ \E fv \in {<<>>, <<RawStage("hflip")>>},
          fa \in {<<>>, <<RawStage("volume=2")>>} :
           cmd = [FFmpegCommand_new(InputPath, OutputPath)
                      EXCEPT !.video_filters = fv, !.audio_filters = fa]
    /\ args = <<>>
    /\ info = NoInfo
    /\ lut_on_disk = FALSE
    /\ call = NoCall
    /\ first_call = "none"
    /\ pc = "config"
    /\ JobIdle
NextSpeed == Cmd_speed
SpecSpeed == InitSpeed /\ [][NextSpeed]_vars

\* speed() turn by turn; the program, once in a loop, keeps running
NextSpeedLoop ==
    \/ Speed_enter
    \/ Speed_halve \/ Speed_halved
    \/ Speed_double \/ Speed_doubled
SpecSpeedLoop == InitSpeed /\ [][NextSpeedLoop]_vars /\ WF_vars(NextSpeedLoop)

\* the command lines of the model: a preset or none, and up to MaxGiven
\* options
CliPresets ==
    {NoneS} \cup {Some(name) : name \in {"dji-dlog", "dji", "gopro", "sony-slog",
                                         "youtube", "cinema4k", "preview",
                                         "nope"}}
CliGivens(maxgiven) ==
    {g \in SUBSET (CliDefaulted \cup CliOptional) : Cardinality(g) <= maxgiven}

\* speedy-cli run on a command line
InitCli ==
    /\ vp = VideoProcessor_new(InputPath, OutputPath)
    /\ cmd = FFmpegCommand_new(InputPath, OutputPath)
    /\ args = <<>>
    /\ info = NoInfo
    /\ lut_on_disk = FALSE
    /\ \E preset \in CliPresets, given \in CliGivens(MaxGiven) :
           call = [op |-> "main", preset |-> preset, given |-> given]
    /\ first_call = "none"
    /\ pc = "cli"
    /\ JobIdle
NextCli ==
    \/ Cli_main \/ Cli_main_fail
    \/ VP_process({[has_audio |-> TRUE, rotation |-> 0]})
    \/ VP_process_fail
SpecCli == InitCli /\ [][NextCli]_vars

\* the builder: setters in any order, then build()
NextBuilder ==
    \/ Cmd_video_codec \/ Cmd_audio_codec \/ Cmd_bitrate \/ Cmd_quality
    \/ Cmd_preset \/ Cmd_threads \/ Cmd_overwrite \/ Cmd_hardware_accel
    \/ Cmd_video_filter \/ Cmd_audio_filter
    \/ Cmd_preserve_metadata \/ Cmd_custom_args
    \/ Cmd_build
SpecBuilder == InitCommon /\ [][NextBuilder]_vars

\* every option set, by setter calls in the reverse of the pipeline's order:
\* scale first, speed last
VpFull ==
    VideoProcessor_speed(VideoProcessor_lut(VideoProcessor_profile(
    VideoProcessor_contrast(VideoProcessor_saturation(VideoProcessor_stabilize(
    VideoProcessor_auto_rotate(VideoProcessor_denoise(VideoProcessor_sharpen(
    VideoProcessor_vibrance(VideoProcessor_curves(VideoProcessor_hue_shift(
    VideoProcessor_color_balance_str(VideoProcessor_selective_color(
    VideoProcessor_scale(VideoProcessor_new(InputPath, OutputPath),
        Scale1920Auto), "reds=0:-0.05:0.05:0"), BalanceGood), Rat(15, 1)),
        "preset=lighter"), Rat(3, 10)), Rat(1, 4)), 3), FALSE), TRUE),
        Rat(6, 5)), Rat(11, 10)), "DLog"), "grade.cube"), Rat(3, 1))

\* the processor: option setters in any order, then process(); the caller
\* starts from a new processor or from the fully configured one
InitProcessor ==
    /\ \/ vp = VideoProcessor_new(InputPath, OutputPath) /\ first_call = "none"
       \/ vp = VpFull /\ first_call = "scale"
    /\ cmd = FFmpegCommand_new(InputPath, OutputPath)
    /\ args = <<>>
    /\ info = NoInfo
    /\ lut_on_disk \in BOOLEAN
    /\ call = NoCall
    /\ pc = "config"
    /\ JobIdle
Next ==
    \/ VP_speed \/ VP_contrast \/ VP_saturation \/ VP_profile \/ VP_lut
    \/ VP_stabilize \/ VP_auto_rotate \/ VP_denoise \/ VP_sharpen
    \/ VP_vibrance \/ VP_curves \/ VP_hue_shift \/ VP_selective_color
    \/ VP_scale({Scale1920x1080, ScaleWide})
    \/ VP_color_balance_str({BalanceGood, BalanceShort}, FALSE)
    \/ VP_process(Infos)
    \/ VP_process_fail
Spec == InitProcessor /\ [][Next]_vars

\* process() on every scale string
NextScale ==
    \/ (~vp.scale.some
        /\ VP_scale(ScaleStrings(MaxScaleLen)
                    \cup {Scale1920x1080, Scale1920Auto, ScaleBeyondI32}))
    \/ VP_process({[has_audio |-> TRUE, rotation |-> 0]})
SpecScale == InitCommon /\ [][NextScale]_vars

\* color_balance_str() on every colour balance string, then process()
InitBalance ==
    /\ vp \in {VideoProcessor_new(InputPath, OutputPath),
               VideoProcessor_color_balance_str(
                   VideoProcessor_new(InputPath, OutputPath), BalanceEarlier)}
    /\ cmd = FFmpegCommand_new(InputPath, OutputPath)
    /\ args = <<>>
    /\ info = NoInfo
    /\ lut_on_disk = FALSE
    /\ call = NoCall
    /\ first_call = "none"
    /\ pc = "config"
    /\ JobIdle
NextBalance ==
    \/ (call = NoCall /\ VP_color_balance_str(BalanceStrings(MaxParts, MaxComps), TRUE))
    \/ (call # NoCall /\ VP_process({[has_audio |-> TRUE, rotation |-> 0]}))
SpecBalance == InitBalance /\ [][NextBalance]_vars

\* the two-digit fields of some durations and elapsed times
F000 == <<0, 0, 0, 0>>
F030 == <<0, 0, 30, 0>>
F100 == <<0, 1, 0, 0>>
F200 == <<0, 2, 0, 0>>
F230 == <<0, 2, 30, 0>>

\* the lines of the enumerated runs
LineKinds ==
    {DurationLine(F200), ProgressLine(F030), ProgressLine(F230), OtherLine,
     InvalidLine}

\* a duration of 120.00 s, then progress at 30 s, 60 s and 120 s
ScriptExample ==
    <<DurationLine(F200), ProgressLine(F030), ProgressLine(F100),
      ProgressLine(F200)>>
\* progress that goes back, between two duration lines
ScriptRegress ==
    <<DurationLine(F200), ProgressLine(F100), DurationLine(F100),
      ProgressLine(F030)>>
\* a duration of zero
ScriptZero == <<DurationLine(F000), ProgressLine(F030), ProgressLine(F000)>>

\* progress that stands at zero before it moves
ScriptStall == <<DurationLine(F200), ProgressLine(F000), ProgressLine(F030)>>

\* bytes that are not UTF-8 in the middle of the stream
ScriptBroken ==
    <<DurationLine(F200), ProgressLine(F030), InvalidLine, ProgressLine(F100)>>

Scripts(maxlines) ==
    StringsUpTo(LineKinds, maxlines)
    \cup {ScriptExample, ScriptRegress, ScriptZero, ScriptStall, ScriptBroken}

\* execute() on a command, the engine writing one of the scripts to stderr;
\* the engines of the shortest scripts also write to stdout, up to one chunk
\* more than the pipe holds
InitExecute ==
    /\ vp = VideoProcessor_new(InputPath, OutputPath)
    /\ cmd = FFmpegCommand_new(InputPath, OutputPath)
    /\ args = <<>>
    /\ info = NoInfo
    /\ lut_on_disk = FALSE
    /\ call = NoCall
    /\ first_call = "none"
    /\ pc = "config"
    /\ fg = "start" /\ spawns = 0
    /\ child = "none" /\ script \in Scripts(MaxLines) /\ pipe = <<>>
    /\ out_script \in IF Len(script) <= 1 THEN {0, 1, PipeCap + 1} ELSE {0}
    /\ status = NoStatus
    /\ reader = "none" /\ total_duration = NoneR /\ all_output = <<>>
    /\ chan = <<>> /\ tx_open = FALSE
    /\ consumer = "none" /\ callbacks = <<>> /\ received = 0
    /\ logged = <<>> /\ result = NoResult
    /\ out_pipe = 0 /\ fg_output = NoneQ
NextExecute ==
    \/ Exec_spawn \/ Exec_spawn_fail \/ Exec_start_reader
    \/ Exec_start_consumer \/ Exec_wait \/ Exec_wait_fail \/ Exec_join
    \/ Child_write \/ Child_write_stdout \/ Child_exit \/ Child_killed
    \/ Reader_line \/ Reader_read_error \/ Reader_eof
    \/ Consumer_recv \/ Consumer_exit
SpecExecute == InitExecute /\ [][NextExecute]_vars

\* The same, under the scheduling of the operating system: a thread or a
\* process that can take a step takes one in the end. Nothing makes a
\* signal arrive or child.wait() fail.
FairExecute ==
    /\ WF_vars(Exec_spawn \/ Exec_spawn_fail)
    /\ WF_vars(Exec_start_reader) /\ WF_vars(Exec_start_consumer)
    /\ WF_vars(Exec_wait) /\ WF_vars(Exec_join)
    /\ WF_vars(Child_write) /\ WF_vars(Child_write_stdout)
    /\ WF_vars(Child_exit)
    /\ WF_vars(Reader_line \/ Reader_read_error \/ Reader_eof)
    /\ WF_vars(Consumer_recv) /\ WF_vars(Consumer_exit)
SpecExecuteFair == InitExecute /\ [][NextExecute]_vars /\ FairExecute

-----------------------------------------------------------------------------
(* Properties of speed(): checked under SpecSpeed *)

SpeedCalled == pc = "called" /\ call.op = "speed"

\* the stages the call appended to each filter list
EmittedAudio ==
    SubSeq(cmd.audio_filters, Len(call.before.audio_filters) + 1,
           Len(cmd.audio_filters))
EmittedVideo ==
    SubSeq(cmd.video_filters, Len(call.before.video_filters) + 1,
           Len(cmd.video_filters))

Rendered(fs) == [i \in 1..Len(fs) |-> RenderStage(fs[i])]

\* the number a stage carries in its filter string
StageFactor(st) == Rat(st.p[1], Pow(10, st.d))

RMul(x, y) == Rat(x.n * y.n, x.d * y.d)

RECURSIVE Product(_)
Product(fs) ==
    IF fs = <<>> THEN One ELSE RMul(StageFactor(Head(fs)), Product(Tail(fs)))

\* |x / y - 1| <= 1 / parts, for y > 0
Within(x, y, parts) ==
    LET ratio == Rat(x.n * y.d, x.d * y.n)
        diff  == IF ratio.n < ratio.d THEN ratio.d - ratio.n
                 ELSE ratio.n - ratio.d
    IN  diff <= ratio.d \div parts

\* the range [0.5, 2.0] of one tempo stage
NativeRange(x) == x.d <= 2 * x.n /\ x.n <= 2 * x.d

\* for m > 2: the n with 2^n < m <= 2^(n+1)
Halvings(m) ==
    CHOOSE n \in 1..(MaxExp + 2) :
        Pow(2, n) * m.d < m.n /\ m.n <= Pow(2, n + 1) * m.d

\* for 0 < m < 0.5: ceil(log2(0.5 / m)), the least n with m * 2^n >= 0.5
CeilLog2HalfOver(m) ==
    CHOOSE n \in 1..(MaxExp + 2) :
        Pow(2, n) * m.n < m.d /\ m.d <= Pow(2, n + 1) * m.n

\* C2 (as amended): for every multiplier m in [0.5, 2.0] other than 1.0 with
\* audio present, speed() emits exactly one audio tempo stage, whose factor
\* is m printed with four decimals; for m = 1.0 it emits no audio stage;
\* with audio absent it emits no audio stage for any m.
C2_SingleTempoStage ==
    SpeedCalled =>
        LET m == call.multiplier
        IN  /\ ~call.has_audio => EmittedAudio = <<>>
            /\ REq(m, One) => EmittedAudio = <<>>
            /\ (call.has_audio /\ NativeRange(m) /\ ~REq(m, One)) =>
                   /\ Len(EmittedAudio) = 1
                   /\ EmittedAudio[1].f = "atempo"
                   /\ EmittedAudio[1].d = 4
                   /\ EmittedAudio[1].p = <<FmtRound(m, 4)>>

\* m = 17/32 = 0.53125 with audio: the one stage is "atempo=0.5312"
C2_Witness ==
    /\ SpeedCalled
    /\ call.has_audio
    /\ call.multiplier = Rat(17, 32)
    /\ Rendered(EmittedAudio) = <<"atempo=0.5312">>

\* C2 as stated: for every m in [0.5, 2.0] with audio present exactly one
\* audio tempo stage whose factor is m; with audio absent no audio stage.
C2_AsStated ==
    SpeedCalled =>
        LET m == call.multiplier
        IN  /\ ~call.has_audio => EmittedAudio = <<>>
            /\ (call.has_audio /\ NativeRange(m)) =>
                   /\ Len(EmittedAudio) = 1
                   /\ EmittedAudio[1].f = "atempo"
                   /\ REq(StageFactor(EmittedAudio[1]), m)

\* the part of C3 that describes the chain: n stages "atempo=2.0" from the
\* loop, n being the number of halvings that bring m to 2.0 or below, then
\* one stage for the remaining value, which lies in (1.0, 2.0]
HalvingChainShape ==
    LET m    == call.multiplier
        n    == Halvings(m)
        rest == Rat(m.n, m.d * Pow(2, n))
    IN  /\ Len(EmittedAudio) = n + 1
        /\ \A i \in 1..n : RenderStage(EmittedAudio[i]) = "atempo=2.0"
        /\ RLt(One, rest) /\ RLe(rest, Two)
        /\ EmittedAudio[n + 1].f = "atempo"
        /\ EmittedAudio[n + 1].d = 4
        /\ EmittedAudio[n + 1].p = <<FmtRound(rest, 4)>>

\* C3 (as amended): for every m > 2.0 with audio present, speed() emits a
\* stage "atempo=2.0" and halves the working value for as long as it exceeds
\* 2.0, then always emits one final stage for the remaining value, which is
\* in (1.0, 2.0]; m = 4.0 gives one loop stage of 2.0 and the residual stage
\* 2.0000, m = 3.0 gives one loop stage of 2.0 and the residual stage 1.5000.
C3_HalvingChain ==
    (SpeedCalled /\ call.has_audio /\ RLt(Two, call.multiplier)) =>
        /\ HalvingChainShape
        /\ call.multiplier = Rat(4, 1) =>
               Rendered(EmittedAudio) = <<"atempo=2.0", "atempo=2.0000">>
        /\ call.multiplier = Rat(3, 1) =>
               Rendered(EmittedAudio) = <<"atempo=2.0", "atempo=1.5000">>

\* m = 4.0 with audio: the second stage is the residual one
C3_Witness ==
    /\ SpeedCalled
    /\ call.has_audio
    /\ call.multiplier = Rat(4, 1)
    /\ Len(EmittedAudio) = 2
    /\ EmittedAudio[2] = AtempoStage(Two)

\* C3 as stated: the chain as above, and m = 4.0 gives two loop stages of 2.0
\* with no residual stage, m = 3.0 one loop stage and the residual 1.5.
C3_AsStated ==
    (SpeedCalled /\ call.has_audio /\ RLt(Two, call.multiplier)) =>
        /\ HalvingChainShape
        /\ call.multiplier = Rat(4, 1) =>
               Rendered(EmittedAudio) = <<"atempo=2.0", "atempo=2.0">>
        /\ call.multiplier = Rat(3, 1) =>
               Rendered(EmittedAudio) = <<"atempo=2.0", "atempo=1.5000">>

\* C4: for every m in (0, 0.5) with audio present, the stages "atempo=0.5"
\* of the doubling loop number ceil(log2(0.5/m)); at most one stage follows
\* them, the residual one, emitted iff the remaining value is below 1.0.
C4_DoublingChain ==
    (SpeedCalled /\ call.has_audio /\ RLt(call.multiplier, OneHalf)) =>
        LET m    == call.multiplier
            n    == CeilLog2HalfOver(m)
            rest == Rat(m.n * Pow(2, n), m.d)
        IN  /\ Len(EmittedAudio) \in {n, n + 1}
            /\ \A i \in 1..n : RenderStage(EmittedAudio[i]) = "atempo=0.5"
            /\ Len(EmittedAudio) = n + 1 <=> RLt(rest, One)
            /\ Len(EmittedAudio) = n + 1 =>
                   /\ EmittedAudio[n + 1].f = "atempo"
                   /\ EmittedAudio[n + 1].d = 4
                   /\ EmittedAudio[n + 1].p = <<FmtRound(rest, 4)>>

\* m = 3/32 with audio: three loop stages, then the residual 0.7500
C4_Witness ==
    /\ SpeedCalled
    /\ call.has_audio
    /\ call.multiplier = Rat(3, 32)
    /\ Rendered(EmittedAudio)
           = <<"atempo=0.5", "atempo=0.5", "atempo=0.5", "atempo=0.7500">>

\* C5: for every m > 0 other than 1.0 with audio present, the factors of the
\* audio tempo stages speed() emits multiply to m, within one part in 10^4.
C5_ProductIsMultiplier ==
    (SpeedCalled /\ call.has_audio /\ ~REq(call.multiplier, One)) =>
        /\ EmittedAudio # <<>>
        /\ \A i \in 1..Len(EmittedAudio) : EmittedAudio[i].f = "atempo"
        /\ Within(Product(EmittedAudio), call.multiplier, Pow(10, 4))

\* a chain of three stages whose product is m only within the tolerance
C5_Witness ==
    /\ SpeedCalled
    /\ call.has_audio
    /\ Len(EmittedAudio) = 3
    /\ ~REq(Product(EmittedAudio), call.multiplier)

\* C6: for every m > 0 with audio present, every audio tempo stage speed()
\* emits has its factor in [0.5, 2.0], on each of the three branches.
C6_FactorsInRange ==
    (SpeedCalled /\ call.has_audio) =>
        \A i \in 1..Len(EmittedAudio) :
            /\ EmittedAudio[i].f = "atempo"
            /\ NativeRange(StageFactor(EmittedAudio[i]))

\* m = 1/4 with audio: both stages sit on the lower end of the range
C6_Witness ==
    /\ SpeedCalled
    /\ call.has_audio
    /\ call.multiplier = Rat(1, 4)
    /\ Rendered(EmittedAudio) = <<"atempo=0.5", "atempo=0.5000">>

\* C7: for every m other than 1.0, speed() adds exactly one video time-remap
\* stage with factor 1/m (here: within one part in 100 of 1/m), with or
\* without audio; for m = 1.0 it adds no video stage and no audio stage.
C7_AsStated ==
    SpeedCalled =>
        LET m == call.multiplier
        IN  /\ ~REq(m, One) =>
                   /\ Len(EmittedVideo) = 1
                   /\ EmittedVideo[1].f = "setpts"
                   /\ Within(StageFactor(EmittedVideo[1]), RInv(m), 100)
            /\ REq(m, One) => (EmittedVideo = <<>> /\ EmittedAudio = <<>>)

-----------------------------------------------------------------------------
(* Properties of build(): checked under SpecBuilder *)

\* the first position of a flag in the arguments, 0 when it is absent
FlagIndex(flag) ==
    IF \E i \in 1..Len(args) : args[i] = flag
    THEN CHOOSE i \in 1..Len(args) :
             args[i] = flag /\ \A j \in 1..(i - 1) : args[j] # flag
    ELSE 0

\* the flags of build() in the order the arguments are to carry them
FlagOrder ==
    <<"-y", "-hwaccel", "-i", "-filter_complex", "-c:v", "-c:a", "-crf",
      "-b:v", "-preset", "-threads">>

\* whether the command asks for the flag
FlagWanted(flag) ==
    CASE flag = "-y"       -> cmd.overwrite
      [] flag = "-hwaccel" -> cmd.hw_accel.some
      [] flag = "-i"       -> TRUE
      [] flag = "-filter_complex" ->
             cmd.video_filters # <<>> \/ cmd.audio_filters # <<>>
      [] flag = "-c:v"     -> cmd.video_codec.some
      [] flag = "-c:a"     -> cmd.audio_codec.some
      [] flag = "-crf"     -> cmd.quality.some
      [] flag = "-b:v"     -> cmd.bitrate.some
      [] flag = "-preset"  -> cmd.preset.some
      [] flag = "-threads" -> cmd.threads.some

\* where the metadata flags begin
TailStart == Len(args) - Len(cmd.extra_args) - Len(cmd.metadata_args)

\* C10: build() emits the overwrite flag, the hardware-accel hint, the input,
\* the filter graph with its two track maps (present iff a track has a
\* filter), the codec, quality, bitrate, preset and thread flags, the
\* metadata flags, the passthrough arguments and last the output path, in
\* this order whatever the order of the setter calls.
C10_ArgumentOrder ==
    pc = "built" =>
        /\ \A i \in 1..Len(FlagOrder) :
               FlagIndex(FlagOrder[i]) > 0 <=> FlagWanted(FlagOrder[i])
        /\ \A i, j \in 1..Len(FlagOrder) :
               (i < j /\ FlagWanted(FlagOrder[i]) /\ FlagWanted(FlagOrder[j]))
                   => FlagIndex(FlagOrder[i]) < FlagIndex(FlagOrder[j])
        /\ cmd.overwrite => args[1] = "-y"
        /\ args[FlagIndex("-i") + 1] = cmd.input
        /\ FlagIndex("-map") > 0 <=> FlagWanted("-filter_complex")
        /\ FlagWanted("-filter_complex") =>
               LET fc == FlagIndex("-filter_complex")
               IN  /\ fc = FlagIndex("-i") + 2
                   /\ fc + 5 < TailStart
                   /\ args[fc + 2] = "-map" /\ args[fc + 4] = "-map"
                   /\ args[fc + 3] = (IF cmd.video_filters # <<>>
                                      THEN "[v]" ELSE "0:v?")
                   /\ args[fc + 5] = (IF cmd.audio_filters # <<>>
                                      THEN "[a]" ELSE "0:a?")
                   /\ \A k \in 5..Len(FlagOrder) :
                          FlagWanted(FlagOrder[k])
                              => fc + 5 < FlagIndex(FlagOrder[k])
        /\ \A k \in 1..Len(FlagOrder) : FlagIndex(FlagOrder[k]) < TailStart
        /\ SubSeq(args, TailStart, Len(args) - 1)
               = cmd.metadata_args \o cmd.extra_args
        /\ args[Len(args)] = cmd.output

\* every option set, a filter on each track, metadata and passthrough
C10_Witness ==
    /\ pc = "built"
    /\ \A i \in 1..Len(FlagOrder) : FlagWanted(FlagOrder[i])
    /\ cmd.video_filters # <<>> /\ cmd.audio_filters # <<>>
    /\ cmd.metadata_args # <<>> /\ cmd.extra_args # <<>>
    /\ Len(args) = 29

\* the arguments hold the flag immediately followed by the value
HasPair(flag, value) ==
    \E i \in 1..(Len(args) - 1) : args[i] = flag /\ args[i + 1] = value

\* C11: when exactly one track has filters, build() maps the other track
\* unfiltered ("0:a?" beside "[v]", "0:v?" beside "[a]"); every command that
\* holds a filter graph holds a video map and an audio map.
C11_BothTracksMapped ==
    pc = "built" =>
        /\ (cmd.video_filters # <<>> /\ cmd.audio_filters = <<>>) =>
               (HasPair("-map", "[v]") /\ HasPair("-map", "0:a?"))
        /\ (cmd.video_filters = <<>> /\ cmd.audio_filters # <<>>) =>
               (HasPair("-map", "0:v?") /\ HasPair("-map", "[a]"))
        /\ FlagIndex("-filter_complex") > 0 =>
               /\ HasPair("-map", "[v]") \/ HasPair("-map", "0:v?")
               /\ HasPair("-map", "[a]") \/ HasPair("-map", "0:a?")

\* a video filter and no audio filter: the audio track is mapped unfiltered
C11_Witness ==
    /\ pc = "built"
    /\ cmd.video_filters # <<>> /\ cmd.audio_filters = <<>>
    /\ HasPair("-filter_complex", "[0:v]hflip[v]")
    /\ HasPair("-map", "0:a?")

-----------------------------------------------------------------------------
(* Properties of process(): checked under Spec, SpecBalance and SpecScale *)

\* the place of a stage in the fixed application order
StageRank(st) ==
    CASE st.f = "setpts"         -> 1
      [] st.f = "lut3d"          -> 2
      [] st.f = "eq"             -> 3
      [] st.f = "deshake"        -> 4
      [] st.f = "transpose"      -> 5
      [] st.f = "nlmeans"        -> 6
      [] st.f = "unsharp"        -> 7
      [] st.f = "vibrance"       -> 8
      [] st.f = "curves"         -> 9
      [] st.f = "hue"            -> 10
      [] st.f = "colorbalance"   -> 11
      [] st.f = "selectivecolor" -> 12
      [] st.f = "scale"          -> 13
      [] OTHER                   -> 0

\* C1: whatever options are enabled and whatever the order of the setter
\* calls, the video stages process() hands to the command are in the order
\* speed remap, LUT, contrast/saturation, stabilization, rotation, denoise,
\* sharpen, vibrance, curves, hue shift, color balance, selective color,
\* scale.
C1_FixedStageOrder ==
    pc = "processed" =>
        /\ \A i \in 1..Len(cmd.video_filters) :
               StageRank(cmd.video_filters[i]) > 0
        /\ \A i, j \in 1..Len(cmd.video_filters) :
               i < j => StageRank(cmd.video_filters[i])
                            < StageRank(cmd.video_filters[j])

\* all thirteen stages, from setters called scale first and speed last
C1_Witness ==
    /\ pc = "processed"
    /\ first_call = "scale"
    /\ Len(cmd.video_filters) = 13
    /\ cmd.video_filters[1].f = "setpts"
    /\ cmd.video_filters[13].f = "scale"

BalanceCalled == call.op = "color_balance_str"

StagesOf(name) == SelectSeq(cmd.video_filters, LAMBDA st : st.f = name)

\* three parts of three components each, every component a number
WellFormedBalance(parts) ==
    /\ Len(parts) = 3
    /\ \A i \in 1..3 :
           /\ Len(parts[i]) = 3
           /\ \A j \in 1..3 : ParseF32(parts[i][j]).ok

\* C8: color_balance_str records a color balance, and process() then emits
\* a color-balance stage, only for three parts of three numeric components
\* each; for every other input the stored color balance is as before the
\* call and process() emits no stage for the input.
C8_AsStated ==
    BalanceCalled =>
        IF WellFormedBalance(call.parts)
        THEN /\ vp.color_balance.some
             /\ pc = "processed" => Len(StagesOf("colorbalance")) = 1
        ELSE /\ vp.color_balance = call.before
             /\ (pc = "processed" /\ ~call.before.some)
                    => StagesOf("colorbalance") = <<>>

\* the first position of ch in cs, 0 when cs does not hold it
FirstIndex(cs, ch) ==
    IF \E i \in 1..Len(cs) : cs[i] = ch
    THEN CHOOSE i \in 1..Len(cs) : cs[i] = ch /\ \A j \in 1..(i - 1) : cs[j] # ch
    ELSE 0

\* an optional sign and then digits only, at least one
IsInteger(cs) ==
    LET ds == IF cs # <<>> /\ Head(cs) \in {"-", "+"} THEN Tail(cs) ELSE cs
    IN  ds # <<>> /\ \A i \in 1..Len(ds) : IsDigit(ds[i])

\* the scale stage for the text w before and the text h after a separator
ScaleStageOf(w, h) ==
    Stage("scale", <<ParseI32(w).v, IF ParseI32(h).ok THEN ParseI32(h).v ELSE -1>>,
          0, "")

\* C9 (as amended): the scale string is split at its first 'x' when it holds
\* one, otherwise at its first ':'; if the text W before the separator
\* parses as a 32-bit integer, exactly one scale stage is emitted, with that
\* width and with the height the text H after the separator parses to, or -1
\* when H is empty or does not parse; if W does not parse or the string
\* holds no separator, no scale stage is emitted.  "1920x1080" gives
\* scale=1920:1080 and "1920:-1" gives scale=1920:-1.
C9_ScaleParsing ==
    (pc = "processed" /\ vp.scale.some) =>
        LET cs == vp.scale.v
            k  == IF FirstIndex(cs, "x") > 0 THEN FirstIndex(cs, "x")
                  ELSE FirstIndex(cs, ":")
            w  == SubSeq(cs, 1, k - 1)
            h  == SubSeq(cs, k + 1, Len(cs))
        IN  /\ IF k > 0 /\ ParseI32(w).ok
               THEN StagesOf("scale") = <<ScaleStageOf(w, h)>>
               ELSE StagesOf("scale") = <<>>
            /\ cs = Scale1920x1080 =>
                   Rendered(cmd.video_filters) = <<"scale=1920:1080">>
            /\ cs = Scale1920Auto =>
                   Rendered(cmd.video_filters) = <<"scale=1920:-1">>

\* "1x1:" is split at its 'x': width 1, the height "1:" does not parse
C9_Witness ==
    /\ pc = "processed"
    /\ vp.scale = Some(<<"1", "x", "1", ":">>)
    /\ Rendered(cmd.video_filters) = <<"scale=1:-1">>

\* C9 as stated: the string read as "WxH" or as "W:H"; if W is an integer,
\* exactly one scale stage with that width and the height of H, or -1; if W
\* is no integer or the string holds no separator, no scale stage.
C9_AsStated ==
    (pc = "processed" /\ vp.scale.some) =>
        LET cs == vp.scale.v
        IN  /\ \A sep \in {"x", ":"} :
                   FirstIndex(cs, sep) > 0 =>
                       LET k == FirstIndex(cs, sep)
                           w == SubSeq(cs, 1, k - 1)
                           h == SubSeq(cs, k + 1, Len(cs))
                       IN  IF IsInteger(w)
                           THEN /\ Len(StagesOf("scale")) = 1
                                /\ ParseI32(w).ok =>
                                       StagesOf("scale") = <<ScaleStageOf(w, h)>>
                           ELSE StagesOf("scale") = <<>>
            /\ (FirstIndex(cs, "x") = 0 /\ FirstIndex(cs, ":") = 0)
                   => StagesOf("scale") = <<>>


(***************************************************************************)
(* Properties of execute(): checked under SpecExecute                      *)
(***************************************************************************)
\* execute() has returned after reconciling the exit status of the child
Reconciled ==
    fg = "returned" /\ status.exited /\ result \notin {SpawnError, WaitError}

\* the message of the result holds the text of every line of the sequence
Carries(r, lines) ==
    \A i \in 1..Len(lines) :
        \E j \in 1..Len(r.message) : r.message[j] = RenderLine(lines[i])

\* C13, as stated: once execute() has returned after the child exited, a
\* non-zero status makes the result a failure that carries every line the
\* reader captured, and a zero status makes it success with no transcript
\* surfaced (nothing logged, nothing in the result).
C13_AsStated ==
    Reconciled =>
        IF Success(status)
        THEN result = OkResult /\ logged = <<>>
        ELSE result.kind = "Err" /\ Carries(result, all_output)

\* C14, as stated: the failure reported for a child ended by a signal (no
\* numeric exit code) is of another variant than the failure reported for a
\* non-zero numeric exit code.
C14_AsStated ==
    Reconciled /\ ~status.code.some =>
        /\ result.kind = "Err"
        /\ result.type # ExitError(ExitedWith(Some(1))).type

\* C15: the engine is spawned at most once in an execution of execute(),
\* whatever its outcome; after a failed spawn execute() has returned the
\* spawn failure with no child, no reader, no consumer, nothing sent and
\* the callback never invoked.
C15_SpawnAtMostOnce ==
    /\ spawns <= 1
    /\ fg # "start" => spawns = 1
    /\ result = SpawnError =>
        /\ fg = "returned"
        /\ child = "none" /\ reader = "none" /\ consumer = "none"
        /\ ~tx_open /\ chan = <<>> /\ all_output = <<>>
        /\ callbacks = <<>> /\ received = 0
C15_Witness ==
    /\ result = SpawnError /\ fg = "returned" /\ spawns = 1
    /\ script # <<>> /\ callbacks = <<>>

\* hundredths of a second in four two-digit fields
Centis(f) == ((f[1] * 60 + f[2]) * 60 + f[3]) * 100 + f[4]

\* the index of the first duration line of the sequence, 0 if it has none
RECURSIVE FirstDuration(_, _)
FirstDuration(lines, i) ==
    IF i > Len(lines) THEN 0
    ELSE IF lines[i].dur # <<>> THEN i
    ELSE FirstDuration(lines, i + 1)

\* whether the total is known when line i is handled
TotalKnownAt(lines, i) ==
    FirstDuration(lines, 1) > 0 /\ FirstDuration(lines, 1) < i

\* min(100, elapsed / total * 100) on hundredths of a second
MinPercent(elapsed, total) ==
    IF elapsed >= total THEN Rat(100, 1) ELSE Rat(elapsed * 100, total)

\* the progress percentage due for line i, as a sequence of none or one
ProgressDue(lines, i) ==
    IF lines[i].time # <<>> /\ TotalKnownAt(lines, i)
    THEN <<MinPercent(Centis(lines[i].time),
                      Centis(lines[FirstDuration(lines, 1)].dur))>>
    ELSE <<>>

\* the samples due for the first k lines: for each line its progress
\* percentage, if one is due, then the zero sent for every line
RECURSIVE SamplesDue(_, _)
SamplesDue(lines, k) ==
    IF k = 0 THEN <<>>
    ELSE SamplesDue(lines, k - 1) \o ProgressDue(lines, k) \o <<Rat(0, 1)>>

\* the percentages of a sequence of samples or callback arguments
Percentages(samples) == [i \in 1..Len(samples) |-> samples[i].progress]

\* C16: the samples sent are, line by line in the order the lines were
\* read, one progress sample of min(100, elapsed/total * 100) for a progress
\* line read when the total duration was known and none for a progress line
\* read before (each followed by the zero sample sent for every line); no
\* sample exceeds 100; and a duration line of 120.00 s followed by progress
\* at 30 s, 60 s and 120 s makes the callback see 25.0, 50.0, 100.0.
C16_ProgressSamples ==
    /\ Percentages(chan) = SamplesDue(all_output, Len(all_output))
    /\ \A i \in 1..Len(chan) :
          /\ RLe(chan[i].progress, Rat(100, 1))
          /\ RLe(Rat(0, 1), chan[i].progress)
    /\ all_output = ScriptExample /\ consumer = "done" =>
          /\ Percentages(callbacks) = <<Rat(25, 1), Rat(50, 1), Rat(100, 1)>>
          /\ [i \in 1..3 |-> callbacks[i].message]
               = <<"Processing: 25.0%", "Processing: 50.0%",
                   "Processing: 100.0%">>
C16_Witness ==
    /\ all_output = ScriptExample /\ consumer = "done"
    /\ Len(chan) = 7
    /\ [i \in 1..Len(callbacks) |-> callbacks[i].message]
         = <<"Processing: 25.0%", "Processing: 50.0%", "Processing: 100.0%">>

\* whether a percentage is strictly greater than zero
Positive(p) == RLt(Rat(0, 1), p)

\* the positive ones among the first k percentages, in their order
RECURSIVE PositiveOnly(_, _)
PositiveOnly(percentages, k) ==
    IF k = 0 THEN <<>>
    ELSE IF Positive(percentages[k])
    THEN Append(PositiveOnly(percentages, k - 1), percentages[k])
    ELSE PositiveOnly(percentages, k - 1)

\* the progress lines among the lines read that were read when the total
\* was known
ProgressLinesKnown ==
    {i \in 1..Len(all_output) :
        all_output[i].time # <<>> /\ TotalKnownAt(all_output, i)}

\* C17: the callback has been invoked once for each received sample whose
\* percentage is greater than zero and for no other: its invocations are
\* as many as the positive samples received, each with a positive
\* percentage, and never more than the progress lines read after the total
\* duration was known.
C17_CallbackPerPositiveSample ==
    /\ Len(callbacks)
         = Cardinality({i \in 1..received : Positive(chan[i].progress)})
    /\ \A i \in 1..Len(callbacks) : Positive(callbacks[i].progress)
    /\ Len(callbacks) <= Cardinality(ProgressLinesKnown)
C17_Witness ==
    /\ all_output = ScriptStall /\ consumer = "done"
    /\ received = 5 /\ Len(callbacks) = 1
    /\ Cardinality(ProgressLinesKnown) = 2

\* C18: the percentages passed to the callback are the positive ones among
\* the percentages computed from the lines read, in the order of the lines,
\* each once and unchanged, as far as the consumer has received them, and
\* all of them once the consumer has finished; a percentage smaller than
\* the one before it is passed as it is.
C18_CallbackOrder ==
    /\ Percentages(callbacks)
         = PositiveOnly(SamplesDue(all_output, Len(all_output)), received)
    /\ \A i \in 1..Len(callbacks) :
          callbacks[i] = CallbackArgs(callbacks[i].progress)
    /\ consumer = "done" => reader = "done" /\ received = Len(chan)
C18_Witness ==
    /\ all_output = ScriptRegress /\ consumer = "done"
    /\ Percentages(callbacks) = <<Rat(50, 1), Rat(25, 1)>>

\* C19, as stated: when execute() returns the result of a job whose engine
\* was spawned and waited for, the reader and the consumer it created have
\* both terminated, and the callback is never invoked once execute() has
\* returned.
C19_AsStated ==
    [][ /\ (fg # "returned" /\ fg' = "returned"
            /\ result' \notin {SpawnError, WaitError})
           => (reader' = "done" /\ consumer' = "done")
        /\ fg = "returned" => callbacks' = callbacks ]_vars

\* C20: the total duration is that of the first duration line among the
\* lines read, and unknown while no duration line has been read; a later
\* duration line leaves it as it is.
C20_TotalDurationSetOnce ==
    total_duration =
        IF FirstDuration(all_output, 1) = 0 THEN NoneR
        ELSE Some(Rat(Centis(all_output[FirstDuration(all_output, 1)].dur), 100))
C20_Witness ==
    /\ all_output = ScriptRegress /\ reader = "done"
    /\ total_duration = Some(Rat(120, 1))
    /\ Percentages(chan)
         = <<Rat(0, 1), Rat(50, 1), Rat(0, 1), Rat(0, 1), Rat(25, 1), Rat(0, 1)>>

\* the reader is at a line it cannot read
AtReadError == reader = "running" /\ pipe # <<>> /\ ~Head(pipe).valid

\* the stream is closed: the engine has exited, what it wrote stays readable
StreamClosed == reader = "running" /\ child = "exited"

\* C21: when the stream is closed or a read error occurs the reader
\* terminates, and when it has terminated its sender is dropped; the consumer
\* then receives every sample sent and terminates, and it has never
\* terminated while the channel was open or a sample sent was not received.
C21_WorkersTerminate ==
    /\ [](reader = "done" => ~tx_open)
    /\ [](consumer = "done" => ~tx_open /\ received = Len(chan))
    /\ StreamClosed ~> (reader = "done")
    /\ AtReadError ~> (reader = "done")
    /\ (reader = "done") ~> (consumer = "done" /\ received = Len(chan))
C21_Witness ==
    /\ reader = "done" /\ consumer = "done"
    /\ child = "running" /\ script # <<>>
    /\ Len(all_output) = 2 /\ received = Len(chan) /\ Len(callbacks) = 1

\* the reader takes a line it can read from the stream
ReadsLine == reader = "running" /\ pipe # <<>> /\ Head(pipe).valid /\ pipe' = Tail(pipe)

\* C22: the transcript changes only by the running reader appending the
\* line it takes from the stream, and every line the reader takes is
\* appended, matched or not; the foreground gets the transcript only when
\* the child has exited and the reader has terminated, and what it has got
\* is the whole transcript.
C22_TranscriptHandoff ==
    [][ /\ all_output' # all_output => ReadsLine
        /\ ReadsLine => all_output' = Append(all_output, Head(pipe))
        /\ fg_output' # fg_output => child = "exited" /\ reader = "done"
        /\ fg_output'.some => fg_output'.v = all_output' ]_vars
C22_Witness ==
    /\ fg = "returned" /\ fg_output = Some(<<OtherLine, ProgressLine(F030)>>)
    /\ child = "exited" /\ reader = "done"

\* C24, as stated: a foreground that waits for the child gets to return,
\* whatever the child has to write to stderr and to stdout: no write of the
\* child waits for ever.
C24_AsStated ==
    (fg = "waiting") ~> (fg = "returned")

(***************************************************************************)
(* Properties of main(): checked under SpecCli                             *)
(***************************************************************************)
\* the options a preset sets that the claim names; each is the name of the
\* processor's field as well
PresetOptions ==
    {"codec", "quality", "contrast", "saturation", "profile", "stabilize"}

\* the value a processor's field has after the setter of the option was
\* called with what the user gave
SetAlone(option) ==
    LET v == VideoProcessor_new(InputPath, OutputPath)
    IN  CASE option = "codec" -> VideoProcessor_codec(v, CliGiven(option)).codec
          [] option = "quality" ->
               VideoProcessor_quality(v, CliGiven(option)).quality
          [] option = "contrast" ->
               VideoProcessor_contrast(v, CliGiven(option)).contrast
          [] option = "saturation" ->
               VideoProcessor_saturation(v, CliGiven(option)).saturation
          [] option = "profile" ->
               VideoProcessor_profile(v, CliGiven(option)).profile
          [] option = "stabilize" ->
               VideoProcessor_stabilize(v, CliGiven(option)).stabilize

\* C25, as stated: when a preset was applied, each of codec, quality,
\* contrast, saturation, color profile and stabilization is, when process()
\* runs, what the preset made it, unless the user gave that option, and then
\* it is what the user gave.
C25_AsStated ==
    (call.op = "main" /\ call.preset.some /\ pc \in {"config", "processed"}) =>
        \A option \in PresetOptions :
            vp[option] =
                IF option \in call.given THEN SetAlone(option)
                ELSE Preset_apply(call.preset.v,
                                  VideoProcessor_new(InputPath, OutputPath))[option]

(***************************************************************************)
(* Properties of speed() turn by turn: checked under SpecSpeedLoop         *)
(***************************************************************************)
\* C23, as stated: a call of speed() with audio present that has entered
\* its loops leaves them, for every multiplier.
C23_AsStated ==
    (pc \in {"halving", "doubling"}) ~> (pc = "called")

=============================================================================
